---------------------------- MODULE Spec2Model ----------------------------
(***************************************************************************)
(* Model of the payment agent: Observer (sliding window and counters),     *)
(* Reasoner (pattern detectors and baselines), AgentState (control knobs   *)
(* and safety gates), Decision Maker (candidate generation and scoring),   *)
(* Executor (execute, monitor, rollback) and the phases of                 *)
(* PaymentAgent.run_cycle.                                                 *)
(*                                                                         *)
(* Time is counted in minutes.  Rates are kept as pairs success/total and  *)
(* compared by cross-multiplication; scores are fixed-point integers.      *)
(***************************************************************************)
EXTENDS Integers, Sequences, FiniteSets, TLC

VARIABLES now, observer, reasoner, state, executor, actions, pc, cycle_count, results,
          decision, ret

vars == <<now, observer, reasoner, state, executor, actions, pc, cycle_count, results,
          decision, ret>>

(***************************************************************************)
(* Bounds of the model.                                                    *)
(***************************************************************************)
MaxTime == 20
MaxIngest == 3
MaxBatches == 2
MaxExec == 2
MaxCycles == 2
MaxHorizon == 40

TickSteps == {10}

(***************************************************************************)
(* Program constants.                                                      *)
(***************************************************************************)
WindowSizeMinutes == 10
LatencyRingMax == 1000

(***************************************************************************)
(* Transactions.                                                           *)
(***************************************************************************)
Issuers == {"HDFC", "ICICI"}
Methods == {"upi", "credit_card"}
Regions == {"IN", "US"}
Merchants == {"m1"}
Statuses == {"success", "failed", "pending", "retry"}

Txn(ts, st, iss, meth, reg, mer, lat) ==
    [timestamp |-> ts, status |-> st, issuer |-> iss, payment_method |-> meth,
     region |-> reg, merchant_id |-> mer, latency_ms |-> lat,
     error_code |-> "", is_retry |-> FALSE]

\* The transactions the producers of the Observer specification submit.
TxnKinds ==
    { Txn(0, "success", "HDFC", "upi", "IN", "m1", 100),
      [Txn(0, "failed", "HDFC", "credit_card", "IN", "m1", 300)
           EXCEPT !.error_code = "ISSUER_DOWN"],
      Txn(0, "pending", "ICICI", "upi", "US", "m1", 0),
      [Txn(0, "retry", "ICICI", "credit_card", "US", "m1", 100)
           EXCEPT !.is_retry = TRUE] }

\* How old a submitted record may already be (producers set the timestamp).
Ages == {0, 20}

Stamp(t, ts) == [t EXCEPT !.timestamp = ts]

\* The element of a one-element set.
The(S) == CHOOSE x \in S : TRUE

(***************************************************************************)
(* Observer.                                                               *)
(***************************************************************************)
Dims == {"overall", "by_issuer", "by_method", "by_region", "by_merchant"}

KeysOf(d) ==
    CASE d = "overall" -> {"current"}
      [] d = "by_issuer" -> Issuers
      [] d = "by_method" -> Methods
      [] d = "by_region" -> Regions
      [] d = "by_merchant" -> Merchants

ZeroCounter == [success |-> 0, failed |-> 0, total |-> 0]

\* PaymentObserver.__init__: empty window, all counters zero, empty rings.
ObserverInit ==
    [transactions_window |-> <<>>,
     stats |-> [d \in Dims |-> [k \in KeysOf(d) |-> ZeroCounter]],
     key_order |-> [d \in Dims |-> <<>>],
     latencies |-> <<>>,
     error_codes |-> <<>>,
     ingested |-> 0,
     batches |-> 0]

\* The key a transaction is counted under in dimension d.
KeyIn(d, t) ==
    CASE d = "overall" -> "current"
      [] d = "by_issuer" -> t.issuer
      [] d = "by_method" -> t.payment_method
      [] d = "by_region" -> t.region
      [] d = "by_merchant" -> t.merchant_id

\* A variant that counts only the status failed as a failure.
StatusKeyFailedOnly(t) == IF t.status = "failed" THEN "failed" ELSE "success"

\* status_key of _update_stats and of _remove_from_stats
StatusKey(t) == IF t.status = "success" THEN "success" ELSE "failed"

\* stats[d][k][status_key] += n; stats[d][k]['total'] += n
Bump(stats, t, n) ==
    [d \in Dims |->
        [k \in KeysOf(d) |->
            IF k = KeyIn(d, t)
            THEN [stats[d][k] EXCEPT ![StatusKey(t)] = @ + n, !.total = @ + n]
            ELSE stats[d][k]]]

_update_stats(stats, t) == Bump(stats, t, 1)

\* A variant that takes every evicted record off the success counter.
_remove_from_stats_success_only(stats, t) ==
    Bump(stats, [t EXCEPT !.status = "success"], -1)

_remove_from_stats(stats, t) == Bump(stats, t, -1)

\* while window and window[0].timestamp < cutoff: popleft, _remove_from_stats
RECURSIVE _cleanup_old_transactions(_, _)
_cleanup_old_transactions(obs, t_now) ==
    LET w == obs.transactions_window
        cutoff_time == t_now - WindowSizeMinutes
    IN  IF w # <<>> /\ Head(w).timestamp < cutoff_time
        THEN The({ _cleanup_old_transactions(popped, t_now) :
                   popped \in {[obs EXCEPT !.transactions_window = Tail(w),
                                           !.stats = _remove_from_stats(obs.stats, Head(w))]} })
        ELSE obs

\* deque(maxlen=1000).append for latency_ms > 0
_track_latency(lat, t) ==
    IF t.latency_ms > 0
    THEN IF Len(lat) >= LatencyRingMax
         THEN Append(Tail(lat), t.latency_ms)
         ELSE Append(lat, t.latency_ms)
    ELSE lat

\* if status == FAILED and error_code: error_codes[error_code] += 1.  The
\* dict is kept as the sequence of its items in insertion order.
_track_error(codes, t) ==
    IF t.status = "failed" /\ t.error_code # ""
    THEN IF \E i \in DOMAIN codes : codes[i].code = t.error_code
         THEN [i \in DOMAIN codes |->
                  IF codes[i].code = t.error_code
                  THEN [codes[i] EXCEPT !.count = @ + 1] ELSE codes[i]]
         ELSE Append(codes, [code |-> t.error_code, count |-> 1])
    ELSE codes

\* The keys of the defaultdicts of stats in the order of their first use.
TouchKeys(order, t) ==
    [d \in Dims |->
        IF \E i \in DOMAIN order[d] : order[d][i] = KeyIn(d, t)
        THEN order[d] ELSE Append(order[d], KeyIn(d, t))]

\* A variant that counts the record only when the cleanup has left it in the
\* window.
ingest_transaction_counting_kept(obs, t, t_now) ==
    LET appended == [obs EXCEPT !.transactions_window = Append(@, t),
                                !.ingested = @ + 1]
        cleaned == _cleanup_old_transactions(appended, t_now)
    IN  [cleaned EXCEPT !.stats = IF cleaned.transactions_window = <<>>
                                  THEN cleaned.stats
                                  ELSE _update_stats(cleaned.stats, t),
                        !.key_order = TouchKeys(cleaned.key_order, t),
                        !.latencies = _track_latency(cleaned.latencies, t),
                        !.error_codes = _track_error(cleaned.error_codes, t)]

\* PaymentObserver.ingest_transaction
ingest_transaction(obs, t, t_now) ==
    LET appended == [obs EXCEPT !.transactions_window = Append(@, t),
                                !.ingested = @ + 1]
        cleaned == _cleanup_old_transactions(appended, t_now)
    IN  [cleaned EXCEPT !.stats = _update_stats(cleaned.stats, t),
                        !.key_order = TouchKeys(cleaned.key_order, t),
                        !.latencies = _track_latency(cleaned.latencies, t),
                        !.error_codes = _track_error(cleaned.error_codes, t)]

RECURSIVE ingest_batch(_, _, _)
ingest_batch(obs, ts, t_now) ==
    IF ts = <<>> THEN obs
    ELSE The({ ingest_batch(next, Tail(ts), t_now) :
               next \in {ingest_transaction(obs, Head(ts), t_now)} })

\* success / total as a pair; total = 0 stands for the rate 1.0
get_success_rate(obs, d, k) ==
    LET s == obs.stats[d][k]
    IN  IF s.total = 0 THEN <<1, 1>> ELSE <<s.success, s.total>>

get_transaction_volume(obs, d, k) == obs.stats[d][k].total

RECURSIVE SeqSum(_)
SeqSum(s) == IF s = <<>> THEN 0 ELSE Head(s) + SeqSum(Tail(s))

\* get_latency_stats('overall')['mean'] as sum/count; <<0, 1>> when empty
LatencyMean(obs) ==
    IF obs.latencies = <<>> THEN <<0, 1>>
    ELSE <<SeqSum(obs.latencies), Len(obs.latencies)>>

(***************************************************************************)
(* Dictionaries (Python dict) as functions with a finite domain.           *)
(***************************************************************************)
EmptyDict == [k \in {} |-> 0]

DictSet(d, k, v) == (k :> v) @@ d

DictDel(d, k) == [x \in (DOMAIN d) \ {k} |-> d[x]]

\* d.get(k, default)
Get(d, k, default) == IF k \in DOMAIN d THEN d[k] ELSE default

(***************************************************************************)
(* AgentState.                                                             *)
(***************************************************************************)
\* AgentState(): the dataclass defaults, with the two hourly counters as
\* constructor arguments.
AgentStateInit(taken, rollbacks) ==
    [active_circuit_breakers |-> {},
     suppressed_methods |-> {},
     retry_strategies |-> EmptyDict,
     routing_overrides |-> EmptyDict,
     actions_taken_last_hour |-> taken,
     rollbacks_last_hour |-> rollbacks,
     actions_executed |-> 0,
     actions_successful |-> 0,
     total_transactions |-> 0,
     successful_transactions |-> 0,
     failed_transactions |-> 0,
     overall_success_rate |-> <<19, 20>>,
     average_latency_ms |-> 200]

HourlyActionLimit == 50
RollbackLimit == 10
HighRiskRollbackLimit == 3

\* A variant whose high-risk gate closes only above the limit.
can_take_action_high_risk_above_limit(st, action) ==
    IF st.actions_taken_last_hour >= HourlyActionLimit
    THEN <<FALSE, "Hourly action limit reached">>
    ELSE IF st.rollbacks_last_hour >= RollbackLimit
    THEN <<FALSE, "Too many rollbacks in last hour">>
    ELSE IF action.risk_level \in {"high", "critical"}
            /\ st.rollbacks_last_hour > HighRiskRollbackLimit
    THEN <<FALSE, "High-risk action blocked due to recent rollbacks">>
    ELSE <<TRUE, "Action allowed">>

\* A variant whose rollback gate closes only above the limit.
can_take_action_rollbacks_above_limit(st, action) ==
    IF st.actions_taken_last_hour >= HourlyActionLimit
    THEN <<FALSE, "Hourly action limit reached">>
    ELSE IF st.rollbacks_last_hour > RollbackLimit
    THEN <<FALSE, "Too many rollbacks in last hour">>
    ELSE IF action.risk_level \in {"high", "critical"}
            /\ st.rollbacks_last_hour >= HighRiskRollbackLimit
    THEN <<FALSE, "High-risk action blocked due to recent rollbacks">>
    ELSE <<TRUE, "Action allowed">>

\* AgentState.can_take_action: <<allowed, reason>>
can_take_action(st, action) ==
    IF st.actions_taken_last_hour >= HourlyActionLimit
    THEN <<FALSE, "Hourly action limit reached">>
    ELSE IF st.rollbacks_last_hour >= RollbackLimit
    THEN <<FALSE, "Too many rollbacks in last hour">>
    ELSE IF action.risk_level \in {"high", "critical"}
            /\ st.rollbacks_last_hour >= HighRiskRollbackLimit
    THEN <<FALSE, "High-risk action blocked due to recent rollbacks">>
    ELSE <<TRUE, "Action allowed">>

\* The knobs the Executor writes.
Knobs(st) ==
    [active_circuit_breakers |-> st.active_circuit_breakers,
     suppressed_methods |-> st.suppressed_methods,
     retry_strategies |-> st.retry_strategies,
     routing_overrides |-> st.routing_overrides]

(***************************************************************************)
(* Actions.  An Action object is a record; the Executor changes its        *)
(* status, executed_at and completed_at.                                   *)
(***************************************************************************)
NoTime == -1

\* actual_impact = None
NoImpact == <<>>

Action(type, target, params, risk, auth, approver, conf, impact) ==
    [action_type |-> type, target |-> target, parameters |-> params,
     risk_level |-> risk, authorization_level |-> auth, approver |-> approver,
     confidence |-> conf, estimated_impact |-> impact,
     status |-> "pending", executed_at |-> NoTime, completed_at |-> NoTime,
     actual_impact |-> NoImpact]

Impact(ds, dl, dc, aff) ==
    [success_rate_delta |-> ds, latency_delta_ms |-> dl,
     cost_delta_per_txn |-> dc, affected_traffic_pct |-> aff]

(***************************************************************************)
(* Executor.                                                               *)
(***************************************************************************)
\* PaymentExecutor.__init__
ExecutorInit == [active_interventions |-> <<>>, execution_log |-> <<>>]

SuccessRateDropThreshold == <<1, 20>>
LatencyIncreaseThreshold == <<1, 2>>
DefaultDurationMinutes == 30

Range(s) == {s[i] : i \in DOMAIN s}

\* A variant that leaves out the search for a similar active intervention.
_pre_execution_checks_without_duplicate_search(ex, acts, st, id) ==
    LET action == acts[id]
        gate == can_take_action(st, action)
    IN  IF action.authorization_level = "manual" /\ action.approver = ""
        THEN <<FALSE, "Manual authorization required">>
        ELSE IF action.authorization_level = "semi_automatic"
                /\ action.approver = "" /\ action.risk_level # "low"
        THEN <<FALSE, "Semi-automatic action requires approval for non-low risk">>
        ELSE IF ~gate[1]
        THEN gate
        ELSE <<TRUE, "Checks passed">>

\* A variant that leaves out the two authorization checks.
_pre_execution_checks_without_authorization(ex, acts, st, id) ==
    LET action == acts[id]
        gate == can_take_action(st, action)
    IN  IF ~gate[1]
        THEN gate
        ELSE IF \E other \in Range(ex.active_interventions) :
                    /\ acts[other].action_type = action.action_type
                    /\ acts[other].target = action.target
        THEN <<FALSE, "Similar action already active">>
        ELSE <<TRUE, "Checks passed">>

\* PaymentExecutor._pre_execution_checks: <<ok, reason>>
_pre_execution_checks(ex, acts, st, id) ==
    LET action == acts[id]
        gate == can_take_action(st, action)
    IN  IF action.authorization_level = "manual" /\ action.approver = ""
        THEN <<FALSE, "Manual authorization required">>
        ELSE IF action.authorization_level = "semi_automatic"
                /\ action.approver = "" /\ action.risk_level # "low"
        THEN <<FALSE, "Semi-automatic action requires approval for non-low risk">>
        ELSE IF ~gate[1]
        THEN gate
        ELSE IF \E other \in Range(ex.active_interventions) :
                    /\ acts[other].action_type = action.action_type
                    /\ acts[other].target = action.target
        THEN <<FALSE, "Similar action already active">>
        ELSE <<TRUE, "Checks passed">>

\* The type-specific writes: [ok, message, state]
\* A variant that opens the breaker before it looks at the issuer.
_execute_circuit_breaker_writing_first(action, st, t_now) ==
    LET written == [st EXCEPT !.active_circuit_breakers =
                                  @ \cup {Get(action.parameters, "issuer", "")}]
    IN  IF Get(action.parameters, "issuer", "") = ""
        THEN [ok |-> FALSE, message |-> "No issuer specified", state |-> written]
        ELSE [ok |-> TRUE, message |-> "Circuit breaker activated", state |-> written]

\* PaymentExecutor._execute_circuit_breaker
_execute_circuit_breaker(action, st, t_now) ==
    IF Get(action.parameters, "issuer", "") = ""
    THEN [ok |-> FALSE, message |-> "No issuer specified", state |-> st]
    ELSE [ok |-> TRUE, message |-> "Circuit breaker activated",
          state |-> [st EXCEPT !.active_circuit_breakers =
                                   @ \cup {action.parameters["issuer"]}]]

RetryFields == {"max_retries", "backoff_multiplier", "timeout_ms"}

_execute_retry_adjustment(action, st, t_now) ==
    LET old == Get(st.retry_strategies, action.target, EmptyDict)
        given == RetryFields \cap DOMAIN action.parameters
        strategy == [f \in given \cup DOMAIN old |->
                        IF f \in given THEN action.parameters[f] ELSE old[f]]
    IN  [ok |-> TRUE, message |-> "Retry strategy adjusted",
         state |-> [st EXCEPT !.retry_strategies =
                                  DictSet(@, action.target, strategy)]]

_execute_route_change(action, st, t_now) ==
    LET override ==
            [alternative_routing |-> Get(action.parameters, "alternative_routing", FALSE),
             reduce_routing_pct |-> Get(action.parameters, "reduce_routing_pct", 0),
             applied_at |-> t_now]
    IN  [ok |-> TRUE, message |-> "Routing adjusted",
         state |-> [st EXCEPT !.routing_overrides =
                                  DictSet(@, action.target, override)]]

_execute_method_suppress(action, st, t_now) ==
    IF Get(action.parameters, "payment_method", "") = ""
    THEN [ok |-> FALSE, message |-> "No payment method specified", state |-> st]
    ELSE [ok |-> TRUE, message |-> "Payment method temporarily suppressed",
          state |-> [st EXCEPT !.suppressed_methods =
                                   @ \cup {action.parameters["payment_method"]}]]

_execute_by_type(action, st, t_now) ==
    CASE action.action_type = "circuit_breaker" -> _execute_circuit_breaker(action, st, t_now)
      [] action.action_type = "adjust_retry" -> _execute_retry_adjustment(action, st, t_now)
      [] action.action_type = "route_change" -> _execute_route_change(action, st, t_now)
      [] action.action_type = "method_suppress" -> _execute_method_suppress(action, st, t_now)
      [] action.action_type = "alert_ops" ->
            [ok |-> TRUE, message |-> "Alert sent to ops team", state |-> st]
      [] action.action_type = "no_action" ->
            [ok |-> TRUE, message |-> "No action taken (monitoring only)", state |-> st]
      [] OTHER -> [ok |-> FALSE, message |-> "Unknown action type", state |-> st]

_capture_baseline_metrics(obs, t_now) ==
    [success_rate |-> get_success_rate(obs, "overall", "current"),
     avg_latency |-> LatencyMean(obs),
     transaction_volume |-> get_transaction_volume(obs, "overall", "current"),
     timestamp |-> t_now]

\* A variant that does not count the execution in actions_executed.
execute_without_count(ex, acts, st, obs, id, t_now) ==
    LET check == _pre_execution_checks(ex, acts, st, id)
        baseline_metrics == _capture_baseline_metrics(obs, t_now)
        done == _execute_by_type(acts[id], st, t_now)
    IN  IF ~check[1]
        THEN [ok |-> FALSE, message |-> check[2], state |-> st,
              executor |-> ex, actions |-> acts]
        ELSE IF done.ok
        THEN [ok |-> TRUE, message |-> done.message,
              state |-> [done.state EXCEPT !.actions_taken_last_hour = @ + 1],
              executor |->
                  [active_interventions |-> Append(ex.active_interventions, id),
                   execution_log |->
                       Append(ex.execution_log,
                              [action_id |-> id, baseline_metrics |-> baseline_metrics])],
              actions |-> [acts EXCEPT ![id].status = "executed",
                                       ![id].executed_at = t_now]]
        ELSE [ok |-> FALSE, message |-> done.message, state |-> done.state,
              executor |-> ex,
              actions |-> [acts EXCEPT ![id].status = "failed"]]

\* PaymentExecutor.execute: [ok, message, state, executor, actions]
execute(ex, acts, st, obs, id, t_now) ==
    LET check == _pre_execution_checks(ex, acts, st, id)
        baseline_metrics == _capture_baseline_metrics(obs, t_now)
        done == _execute_by_type(acts[id], st, t_now)
    IN  IF ~check[1]
        THEN [ok |-> FALSE, message |-> check[2], state |-> st,
              executor |-> ex, actions |-> acts]
        ELSE IF done.ok
        THEN [ok |-> TRUE, message |-> done.message,
              state |-> [done.state EXCEPT !.actions_taken_last_hour = @ + 1,
                                           !.actions_executed = @ + 1],
              executor |->
                  [active_interventions |-> Append(ex.active_interventions, id),
                   execution_log |->
                       Append(ex.execution_log,
                              [action_id |-> id, baseline_metrics |-> baseline_metrics])],
              actions |-> [acts EXCEPT ![id].status = "executed",
                                       ![id].executed_at = t_now]]
        ELSE [ok |-> FALSE, message |-> done.message, state |-> done.state,
              executor |-> ex,
              actions |-> [acts EXCEPT ![id].status = "failed"]]

\* PaymentExecutor._find_baseline_for_action: the latest log entry of the action
_find_baseline_for_action(ex, id) ==
    LET hits == {i \in DOMAIN ex.execution_log : ex.execution_log[i].action_id = id}
        last == CHOOSE i \in hits : \A j \in hits : j <= i
    IN  IF hits = {} THEN [found |-> FALSE]
        ELSE [found |-> TRUE, metrics |-> ex.execution_log[last].baseline_metrics]

\* baseline - current > 0.05 on the two rates b = <<bs, bt>>, c = <<cs, ct>>,
\* as the double-precision subtraction decides it.  Away from a difference of
\* exactly 1/20 the doubles agree with the rationals.  At exactly 1/20 the
\* rounding of the operands decides: for totals up to 12 the only such pairs
\* are 1/4 - 1/5 and 3/10 - 1/4 (0.04999999999999999, not above 0.05) and
\* 4/5 - 3/4 and 3/4 - 7/10 (0.050000000000000044, above 0.05).  The windows
\* of this model produce no other pair at a difference of exactly 1/20, and
\* for any other the operator has no value.
SuccessDropExceeds(b, c) ==
    LET num == b[1] * c[2] - c[1] * b[2]
        den == b[2] * c[2]
        t == SuccessRateDropThreshold
    IN  \/ num * t[2] > den * t[1]
        \/ /\ num * t[2] = den * t[1]
           /\ CASE 5 * b[1] = 4 * b[2] /\ 4 * c[1] = 3 * c[2] -> TRUE
                [] 4 * b[1] = 3 * b[2] /\ 10 * c[1] = 7 * c[2] -> TRUE
                [] 4 * b[1] = b[2] /\ 5 * c[1] = c[2] -> FALSE
                [] 10 * b[1] = 3 * b[2] /\ 4 * c[1] = c[2] -> FALSE

\* (current - baseline) / baseline > 0.50 on the two means, baseline > 0
LatencyIncreaseExceeds(b, c) ==
    LET t == LatencyIncreaseThreshold
    IN  (c[1] * b[2] - b[1] * c[2]) * t[2] > b[1] * c[2] * t[1]

\* A variant that leaves out the expiry of the action's duration.
_should_rollback_without_expiry(action, baseline, current, t_now) ==
    IF SuccessDropExceeds(baseline.success_rate, current.success_rate)
    THEN <<TRUE, "Success rate dropped">>
    ELSE IF baseline.avg_latency[1] > 0
            /\ LatencyIncreaseExceeds(baseline.avg_latency, current.avg_latency)
    THEN <<TRUE, "Latency increased">>
    ELSE <<FALSE, "">>

\* A variant that rolls back unless the success rate has risen above the
\* baseline.
_should_rollback_unless_improved(action, baseline, current, t_now) ==
    IF current.success_rate[1] * baseline.success_rate[2]
           <= baseline.success_rate[1] * current.success_rate[2]
    THEN <<TRUE, "Success rate dropped">>
    ELSE IF baseline.avg_latency[1] > 0
            /\ LatencyIncreaseExceeds(baseline.avg_latency, current.avg_latency)
    THEN <<TRUE, "Latency increased">>
    ELSE IF action.executed_at # NoTime
            /\ t_now - action.executed_at >
                   Get(action.parameters, "duration_minutes", DefaultDurationMinutes)
    THEN <<TRUE, "Action duration expired">>
    ELSE <<FALSE, "">>

\* PaymentExecutor._should_rollback: <<should, reason>>
_should_rollback(action, baseline, current, t_now) ==
    IF SuccessDropExceeds(baseline.success_rate, current.success_rate)
    THEN <<TRUE, "Success rate dropped">>
    ELSE IF baseline.avg_latency[1] > 0
            /\ LatencyIncreaseExceeds(baseline.avg_latency, current.avg_latency)
    THEN <<TRUE, "Latency increased">>
    ELSE IF action.executed_at # NoTime
            /\ t_now - action.executed_at >
                   Get(action.parameters, "duration_minutes", DefaultDurationMinutes)
    THEN <<TRUE, "Action duration expired">>
    ELSE <<FALSE, "">>

RemoveId(s, id) == SelectSeq(s, LAMBDA x : x # id)

\* A variant that takes back only the circuit breaker.
RollbackKnobsBreakerOnly(action, st) ==
    CASE action.action_type = "circuit_breaker" ->
            [st EXCEPT !.active_circuit_breakers =
                           @ \ {Get(action.parameters, "issuer", "")}]
      [] OTHER -> st

\* The reverse write of _rollback_action on the AgentState.
RollbackKnobs(action, st) ==
    CASE action.action_type = "circuit_breaker" ->
            [st EXCEPT !.active_circuit_breakers =
                           @ \ {Get(action.parameters, "issuer", "")}]
      [] action.action_type = "adjust_retry" ->
            [st EXCEPT !.retry_strategies = DictDel(@, action.target)]
      [] action.action_type = "route_change" ->
            [st EXCEPT !.routing_overrides = DictDel(@, action.target)]
      [] action.action_type = "method_suppress" ->
            [st EXCEPT !.suppressed_methods =
                           @ \ {Get(action.parameters, "payment_method", "")}]
      [] OTHER -> st

\* PaymentExecutor._rollback_action: [ok, state, executor, actions]
_rollback_action(ex, acts, st, id, t_now) ==
    [ok |-> TRUE,
     state |-> RollbackKnobs(acts[id], st),
     executor |-> [ex EXCEPT !.active_interventions = RemoveId(@, id)],
     actions |-> [acts EXCEPT ![id].status = "rolled_back",
                              ![id].completed_at = t_now]]

\* A variant that completes an expired intervention without counting a
\* rollback.
MonitorOneCompletingExpired(m, id, current_metrics, t_now) ==
    LET baseline == _find_baseline_for_action(m.executor, id)
        verdict == IF baseline.found
                   THEN _should_rollback(m.actions[id], baseline.metrics,
                                         current_metrics, t_now)
                   ELSE <<FALSE, "">>
    IN  IF ~verdict[1] THEN m
        ELSE The({ IF verdict[2] = "Action duration expired"
                   THEN [m EXCEPT !.state = rb.state,
                                  !.executor = rb.executor,
                                  !.actions = [rb.actions EXCEPT ![id].status = "completed"]]
                   ELSE [state |-> [rb.state EXCEPT !.rollbacks_last_hour = @ + 1],
                         executor |-> rb.executor,
                         actions |-> rb.actions,
                         rolled_back |-> Append(m.rolled_back, id),
                         reasons |-> Append(m.reasons, verdict[2])]
                   : rb \in {_rollback_action(m.executor, m.actions, m.state, id, t_now)} })

\* The body of the loop of monitor_and_rollback for one active intervention,
\* on the accumulator m = [state, executor, actions, rolled_back, reasons].
MonitorOne(m, id, current_metrics, t_now) ==
    LET baseline == _find_baseline_for_action(m.executor, id)
        verdict == IF baseline.found
                   THEN _should_rollback(m.actions[id], baseline.metrics,
                                         current_metrics, t_now)
                   ELSE <<FALSE, "">>
    IN  IF ~verdict[1] THEN m
        ELSE The({ IF rb.ok
                   THEN [state |-> [rb.state EXCEPT !.rollbacks_last_hour = @ + 1],
                         executor |-> rb.executor,
                         actions |-> rb.actions,
                         rolled_back |-> Append(m.rolled_back, id),
                         reasons |-> Append(m.reasons, verdict[2])]
                   ELSE m
                   : rb \in {_rollback_action(m.executor, m.actions, m.state, id, t_now)} })

\* for action_id, action in list(self.active_interventions.items()): ...
RECURSIVE MonitorLoop(_, _, _, _)
MonitorLoop(m, todo, current_metrics, t_now) ==
    IF todo = <<>> THEN m
    ELSE The({ MonitorLoop(next, Tail(todo), current_metrics, t_now) :
               next \in {MonitorOne(m, Head(todo), current_metrics, t_now)} })

\* PaymentExecutor.monitor_and_rollback
monitor_and_rollback(ex, acts, st, obs, t_now) ==
    The({ MonitorLoop([state |-> st, executor |-> ex, actions |-> acts,
                       rolled_back |-> <<>>, reasons |-> <<>>],
                      ex.active_interventions, current_metrics, t_now) :
          current_metrics \in {_capture_baseline_metrics(obs, t_now)} })

\* PaymentLearner.record_outcome, the write on the Action object: the
\* differences actual - baseline of the success rates and of the mean
\* latencies, each as the fraction <<numerator, denominator>>.
record_outcome(acts, id, baseline_metrics, actual_metrics, t_now) ==
    LET b == baseline_metrics
        c == actual_metrics
    IN  [acts EXCEPT ![id].actual_impact =
            [success_rate_delta |->
                 <<c.success_rate[1] * b.success_rate[2]
                       - b.success_rate[1] * c.success_rate[2],
                   c.success_rate[2] * b.success_rate[2]>>,
             latency_delta |->
                 <<c.avg_latency[1] * b.avg_latency[2]
                       - b.avg_latency[1] * c.avg_latency[2],
                   c.avg_latency[2] * b.avg_latency[2]>>,
             timestamp |-> t_now]]

\* PaymentAgent._learn_phase: for the active interventions that were
\* executed at least 300 seconds ago and have no actual impact yet, the
\* outcome is recorded against the baseline of their execution.
RECURSIVE LearnLoop(_, _, _, _, _)
LearnLoop(ex, acts, todo, obs, t_now) ==
    IF todo = <<>> THEN acts
    ELSE LET id == Head(todo)
             baseline == _find_baseline_for_action(ex, id)
             due == /\ acts[id].executed_at # NoTime
                    /\ t_now - acts[id].executed_at >= 5
                    /\ acts[id].actual_impact = NoImpact
                    /\ baseline.found
         IN  The({ LearnLoop(ex, next, Tail(todo), obs, t_now) :
                   next \in {IF due
                             THEN record_outcome(acts, id, baseline.metrics,
                                                 _capture_baseline_metrics(obs, t_now),
                                                 t_now)
                             ELSE acts} })

_learn_phase(ex, acts, obs, t_now) ==
    LearnLoop(ex, acts, ex.active_interventions, obs, t_now)

(***************************************************************************)
(* Decision Maker.  Severity and confidence are in thousandths, the        *)
(* success-rate and cost deltas in thousandths, affected traffic and the   *)
(* four objective scores in units of 1/10000, latency in milliseconds.     *)
(***************************************************************************)
Pattern(type, value, severity, confidence, metrics) ==
    [pattern_type |-> type, affected_value |-> value, severity |-> severity,
     confidence |-> confidence, metrics |-> metrics]

Min(a, b) == IF a < b THEN a ELSE b
Max(a, b) == IF a > b THEN a ELSE b

\* PaymentDecisionMaker.__init__: the objective weights, in percent
DefaultWeights == [success_rate |-> 40, latency |-> 25, cost |-> 20, risk |-> 15]

\* pattern.metrics.get('volume', 0) / max(total_transactions, 1)
TrafficShare(pattern, st) ==
    (Get(pattern.metrics, "volume", 0) * 10000) \div Max(st.total_transactions, 1)

_generate_issuer_actions(pattern, st) ==
    LET issuer == pattern.affected_value
        breaker == Action("circuit_breaker", issuer,
                          ("issuer" :> issuer) @@ ("duration_minutes" :> 10),
                          "medium", "automatic", "", pattern.confidence,
                          Impact(150, -200, 20, TrafficShare(pattern, st)))
        route == Action("route_change", issuer,
                        ("issuer" :> issuer) @@ ("reduce_routing_pct" :> 50)
                            @@ ("duration_minutes" :> 15),
                        "low", "automatic", "", (pattern.confidence * 9) \div 10,
                        Impact(80, 20, 10, TrafficShare(pattern, st) \div 2))
    IN  IF issuer \notin st.active_circuit_breakers
        THEN <<breaker, route>>
        ELSE <<route>>

_generate_retry_actions(pattern, st) ==
    << Action("adjust_retry", "global_retry_strategy",
              ("max_retries" :> 2) @@ ("backoff_multiplier" :> 2)
                  @@ ("duration_minutes" :> 15),
              "low", "automatic", "", pattern.confidence,
              Impact(-20, -100, -5, Get(pattern.metrics, "retry_percentage", 0))) >>

_generate_method_actions(pattern, st) ==
    << Action("adjust_retry", "method_" \o pattern.affected_value,
              ("payment_method" :> pattern.affected_value) @@ ("max_retries" :> 1)
                  @@ ("duration_minutes" :> 20),
              "low", "automatic", "", pattern.confidence,
              Impact(50, -150, 0, TrafficShare(pattern, st))) >>

_generate_latency_actions(pattern, st) ==
    << Action("adjust_retry", "timeout_settings",
              ("timeout_ms" :> 3000) @@ ("duration_minutes" :> 10),
              "low", "automatic", "", (pattern.confidence * 8) \div 10,
              Impact(-30, -500, 0, 10000)) >>

_generate_error_actions(pattern, st) == <<>>

_generate_geographic_actions(pattern, st) ==
    << Action("route_change", "region_" \o pattern.affected_value,
              ("region" :> pattern.affected_value) @@ ("alternative_routing" :> TRUE)
                  @@ ("duration_minutes" :> 20),
              "medium", "semi_automatic", "", pattern.confidence,
              Impact(200, 100, 30, TrafficShare(pattern, st))) >>

\* A variant whose confidence is that of the pattern.
_create_no_action_at_pattern_confidence(pattern) ==
    Action("no_action", "none", EmptyDict, "low", "automatic", "", pattern.confidence,
           Impact(0, 0, 0, 0))

_create_no_action(pattern) ==
    Action("no_action", "none", EmptyDict, "low", "automatic", "", 1000,
           Impact(0, 0, 0, 0))

_create_alert_action(pattern) ==
    Action("alert_ops", "ops_team",
           ("pattern_type" :> pattern.pattern_type) @@ ("severity" :> pattern.severity),
           "low", "automatic", "", 1000, Impact(0, 0, 0, 0))

_generate_actions(pattern, st) ==
    LET specific ==
            CASE pattern.pattern_type = "issuer_degradation" -> _generate_issuer_actions(pattern, st)
              [] pattern.pattern_type = "retry_storm" -> _generate_retry_actions(pattern, st)
              [] pattern.pattern_type = "method_fatigue" -> _generate_method_actions(pattern, st)
              [] pattern.pattern_type = "latency_spike" -> _generate_latency_actions(pattern, st)
              [] pattern.pattern_type = "error_cluster" -> _generate_error_actions(pattern, st)
              [] pattern.pattern_type = "geographic_issue" -> _generate_geographic_actions(pattern, st)
              [] OTHER -> <<>>
    IN  specific \o <<_create_no_action(pattern), _create_alert_action(pattern)>>

_score_success_impact(delta, pattern_severity) ==
    IF delta > 0
    THEN Min((delta * pattern_severity) \div 20, 10000)
    ELSE Max(0, 10000 + delta * 100)

_score_latency_impact(delta_ms, current_latency) ==
    IF delta_ms < 0
    THEN Min(((0 - delta_ms) * 2 * 10000) \div Max(current_latency, 100), 10000)
    ELSE Max(0, 10000 - (delta_ms * 10000) \div Max(current_latency, 100))

_score_cost_impact(delta_per_txn) ==
    IF delta_per_txn = 0 THEN 10000
    ELSE IF delta_per_txn <= 20 THEN 8000
    ELSE IF delta_per_txn <= 50 THEN 5000
    ELSE 2000

RiskBase(risk_level) ==
    CASE risk_level = "low" -> 10000
      [] risk_level = "medium" -> 7000
      [] risk_level = "high" -> 4000
      [] risk_level = "critical" -> 1000

\* PaymentDecisionMaker.impact_limits
ImpactLimit(risk_level) ==
    CASE risk_level = "low" -> 500
      [] risk_level = "medium" -> 1000
      [] risk_level = "high" -> 2000
      [] risk_level = "critical" -> 10000

_score_risk(risk_level, affected_pct, st) ==
    LET limit == ImpactLimit(risk_level)
        penalty == ((affected_pct - limit) * 10000) \div limit
        sized == IF affected_pct > limit
                 THEN (RiskBase(risk_level) * Max(1000, 10000 - penalty)) \div 10000
                 ELSE RiskBase(risk_level)
    IN  IF st.rollbacks_last_hour > 0 THEN (sized * 8) \div 10 ELSE sized

\* PaymentDecisionMaker._evaluate_action: the total score, in units of 1e-9
_evaluate_action(action, pattern, st, w) ==
    LET impact == action.estimated_impact
        success_score == _score_success_impact(impact.success_rate_delta, pattern.severity)
        latency_score == _score_latency_impact(impact.latency_delta_ms, st.average_latency_ms)
        cost_score == _score_cost_impact(impact.cost_delta_per_txn)
        risk_score == _score_risk(action.risk_level, impact.affected_traffic_pct, st)
    IN  ( w.success_rate * success_score + w.latency * latency_score
          + w.cost * cost_score + w.risk * risk_score ) * action.confidence

\* A variant that sorts lowest score first.
SortByScoreAscending(es) ==
    LET Rank(j) == 1 + Cardinality({k \in DOMAIN es :
                          \/ es[k].score < es[j].score
                          \/ es[k].score = es[j].score /\ k < j})
    IN  [i \in DOMAIN es |-> es[CHOOSE j \in DOMAIN es : Rank(j) = i]]

\* list.sort(key=score, reverse=True): highest score first, and candidates
\* of equal score keep the order in which they were generated (the sort is
\* stable).  Rank(j) is the position of es[j] in the sorted list.
SortByScore(es) ==
    LET Rank(j) == 1 + Cardinality({k \in DOMAIN es :
                          \/ es[k].score > es[j].score
                          \/ es[k].score = es[j].score /\ k < j})
    IN  [i \in DOMAIN es |-> es[CHOOSE j \in DOMAIN es : Rank(j) = i]]

\* decide with the time of the call among the parameters of the action
decide_stamping_parameters(pattern, st, w) ==
    LET possible_actions == _generate_actions(pattern, st)
        evaluated_actions ==
            SortByScore([i \in DOMAIN possible_actions |->
                            [action |-> possible_actions[i],
                             score |-> _evaluate_action(possible_actions[i], pattern, st, w)]])
        best_action ==
            [evaluated_actions[1].action
                EXCEPT !.parameters = ("decided_at" :> now) @@ @]
        gate == can_take_action(st, best_action)
    IN  IF ~gate[1]
        THEN [selected |-> FALSE, best_action |-> best_action,
              reason |-> <<"Best action blocked", gate[2]>>,
              evaluated |-> evaluated_actions]
        ELSE [selected |-> TRUE, best_action |-> best_action,
              reason |-> <<"selected", best_action.action_type>>,
              evaluated |-> evaluated_actions]

\* PaymentDecisionMaker.decide.  selected = FALSE is the return of (None, reason);
\* best_action is the top candidate, returned only when selected.
decide(pattern, st, w) ==
    LET possible_actions == _generate_actions(pattern, st)
        evaluated_actions ==
            SortByScore([i \in DOMAIN possible_actions |->
                            [action |-> possible_actions[i],
                             score |-> _evaluate_action(possible_actions[i], pattern, st, w)]])
        best_action == evaluated_actions[1].action
        gate == can_take_action(st, best_action)
    IN  IF ~gate[1]
        THEN [selected |-> FALSE, best_action |-> best_action,
              reason |-> <<"Best action blocked", gate[2]>>,
              evaluated |-> evaluated_actions]
        ELSE [selected |-> TRUE, best_action |-> best_action,
              reason |-> <<"selected", best_action.action_type>>,
              evaluated |-> evaluated_actions]

(***************************************************************************)
(* Reasoner.  Baseline rates and thresholds are in millionths, latencies   *)
(* in thousandths of a millisecond, severity and confidence in thousandths *)
(* (rounded down).                                                         *)
(***************************************************************************)
DefaultRateBaseline == 950000

\* PaymentReasoner.__init__: the baselines
ReasonerInit ==
    [baselines |->
        [overall_success_rate |-> 950000,
         issuer_success_rates |-> EmptyDict,
         method_success_rates |-> EmptyDict,
         avg_latency |-> 200000]]

\* PaymentReasoner.__init__: the thresholds
Thresholds ==
    [issuer_degradation |-> 150000, method_fatigue |-> 200000,
     latency_spike |-> <<3, 2>>, retry_storm |-> <<2, 5>>, error_cluster |-> 10]

\* 1 / (1 + exp(-0.05 * (sample_size - 50))) in thousandths, for the sample
\* sizes 0..100.
SigmoidMilli ==
    << 76, 79, 83, 87, 91, 95, 100, 104, 109, 114,
       119, 125, 130, 136, 142, 148, 154, 161, 168, 175,
       182, 190, 198, 206, 214, 223, 231, 240, 250, 259,
       269, 279, 289, 299, 310, 321, 332, 343, 354, 366,
       378, 389, 401, 413, 426, 438, 450, 463, 475, 488,
       500, 512, 525, 537, 550, 562, 574, 587, 599, 611,
       622, 634, 646, 657, 668, 679, 690, 701, 711, 721,
       731, 741, 750, 760, 769, 777, 786, 794, 802, 810,
       818, 825, 832, 839, 846, 852, 858, 864, 870, 875,
       881, 886, 891, 896, 900, 905, 909, 913, 917, 921,
       924 >>

ISqrt(x) == CHOOSE r \in 0..1000 : r * r <= x /\ x < (r + 1) * (r + 1)

\* PaymentReasoner._calculate_confidence, on an effect size in millionths
_calculate_confidence(sample_size, effect_size) ==
    LET size_confidence == SigmoidMilli[sample_size + 1]
        effect_confidence == Min(effect_size \div 300, 1000)
    IN  Min(Max(ISqrt(size_confidence * effect_confidence), 0), 1000)

\* baseline - rate, in millionths, for rate = <<success, total>>
Degradation(baseline, rate) ==
    (baseline * rate[2] - 1000000 * rate[1]) \div rate[2]

\* baseline - rate >= threshold as the doubles decide it.  At a difference of
\* exactly the threshold the rounding decides: 0.95 - 0.8 is
\* 0.1499999999999999 and 0.95 - 0.75 is 0.19999999999999996, both below the
\* threshold; for other baselines the operator has no value there.
DegradationAtLeast(baseline, rate, threshold) ==
    LET lhs == baseline * rate[2] - 1000000 * rate[1]
        rhs == threshold * rate[2]
    IN  CASE lhs > rhs -> TRUE
          [] lhs < rhs -> FALSE
          [] lhs = rhs /\ baseline = 950000 /\ threshold \in {150000, 200000} -> FALSE

CountIf(w, P(_)) == Cardinality({i \in DOMAIN w : P(w[i])})

\* The sequence of f(s[i]) for the i with P(s[i]).
Collect(s, P(_), f(_)) ==
    LET kept == SelectSeq(s, P)
    IN  [i \in 1..Len(kept) |-> f(kept[i])]

\* _detect_issuer_degradation with the severity degradation / 0.3 left uncut
_detect_issuer_degradation_uncut(rs, obs) ==
    LET Rate(issuer) == <<obs.stats["by_issuer"][issuer].success,
                          obs.stats["by_issuer"][issuer].total>>
        Baseline(issuer) == Get(rs.baselines.issuer_success_rates, issuer,
                                DefaultRateBaseline)
        Flagged(issuer) ==
            /\ Rate(issuer)[2] > 0
            /\ Rate(issuer)[2] >= 10
            /\ DegradationAtLeast(Baseline(issuer), Rate(issuer),
                                  Thresholds.issuer_degradation)
        Make(issuer) ==
            LET degradation == Degradation(Baseline(issuer), Rate(issuer))
            IN  Pattern("issuer_degradation", issuer,
                        degradation \div 300,
                        _calculate_confidence(Rate(issuer)[2], degradation),
                        ("volume" :> Rate(issuer)[2]))
    IN  Collect(obs.key_order["by_issuer"], Flagged, Make)

\* PaymentReasoner._detect_issuer_degradation
_detect_issuer_degradation(rs, obs) ==
    LET Rate(issuer) == <<obs.stats["by_issuer"][issuer].success,
                          obs.stats["by_issuer"][issuer].total>>
        Baseline(issuer) == Get(rs.baselines.issuer_success_rates, issuer,
                                DefaultRateBaseline)
        Flagged(issuer) ==
            /\ Rate(issuer)[2] > 0
            /\ Rate(issuer)[2] >= 10
            /\ DegradationAtLeast(Baseline(issuer), Rate(issuer),
                                  Thresholds.issuer_degradation)
        Make(issuer) ==
            LET degradation == Degradation(Baseline(issuer), Rate(issuer))
            IN  Pattern("issuer_degradation", issuer,
                        Min(degradation \div 300, 1000),
                        _calculate_confidence(Rate(issuer)[2], degradation),
                        ("volume" :> Rate(issuer)[2]))
    IN  Collect(obs.key_order["by_issuer"], Flagged, Make)

\* PaymentReasoner._detect_method_fatigue
_detect_method_fatigue(rs, obs) ==
    LET Rate(method) == <<obs.stats["by_method"][method].success,
                          obs.stats["by_method"][method].total>>
        Baseline(method) == Get(rs.baselines.method_success_rates, method,
                                DefaultRateBaseline)
        Flagged(method) ==
            /\ Rate(method)[2] > 0
            /\ Rate(method)[2] >= 20
            /\ DegradationAtLeast(Baseline(method), Rate(method),
                                  Thresholds.method_fatigue)
        Make(method) ==
            LET degradation == Degradation(Baseline(method), Rate(method))
            IN  Pattern("method_fatigue", method,
                        Min(degradation \div 400, 1000),
                        _calculate_confidence(Rate(method)[2], degradation),
                        ("volume" :> Rate(method)[2]))
    IN  Collect(obs.key_order["by_method"], Flagged, Make)


\* sorted(s)[r] for a sequence of integers, r counted from 1
OrderStat(s, r) ==
    CHOOSE v \in Range(s) :
        /\ Cardinality({k \in DOMAIN s : s[k] < v}) < r
        /\ r <= Cardinality({k \in DOMAIN s : s[k] <= v})

\* float(np.percentile(latencies, q)) in thousandths of a millisecond: linear
\* interpolation between the two order statistics around (n - 1) * q / 100
Percentile(lats, q) ==
    LET h == (Len(lats) - 1) * q
        lo == h \div 100 + 1
        hi == Min(lo + 1, Len(lats))
    IN  1000 * OrderStat(lats, lo)
            + 10 * (h % 100) * (OrderStat(lats, hi) - OrderStat(lats, lo))

\* PaymentObserver.get_latency_stats('overall'), in thousandths of a
\* millisecond: the statistics of the ring of latencies, zeros when it is empty
get_latency_stats(obs) ==
    IF obs.latencies = <<>>
    THEN [p50 |-> 0, p95 |-> 0, p99 |-> 0, mean |-> 0, max |-> 0]
    ELSE [p50 |-> Percentile(obs.latencies, 50),
          p95 |-> Percentile(obs.latencies, 95),
          p99 |-> Percentile(obs.latencies, 99),
          mean |-> (1000 * SeqSum(obs.latencies)) \div Len(obs.latencies),
          max |-> 1000 * OrderStat(obs.latencies, Len(obs.latencies))]

\* PaymentReasoner._detect_retry_storms
_detect_retry_storms(rs, obs) ==
    LET total_txns == get_transaction_volume(obs, "overall", "current")
        retry_count == CountIf(obs.transactions_window, LAMBDA t : t.is_retry)
    IN  IF total_txns = 0 THEN <<>>
        ELSE IF retry_count * Thresholds.retry_storm[2]
                    >= Thresholds.retry_storm[1] * total_txns
        THEN << Pattern("retry_storm", "retry_behavior",
                        Min((retry_count * 5000) \div (total_txns * 3), 1000),
                        _calculate_confidence(
                            total_txns,
                            (retry_count * 1000000) \div total_txns - 200000),
                        ("retry_percentage" :> (retry_count * 10000) \div total_txns)) >>
        ELSE <<>>

\* PaymentReasoner._detect_latency_spikes
_detect_latency_spikes(rs, obs) ==
    LET baseline == rs.baselines.avg_latency
        current_p95 == IF obs.latencies = <<>> THEN 0 ELSE Percentile(obs.latencies, 95)
    IN  IF current_p95 * Thresholds.latency_spike[2] > baseline * Thresholds.latency_spike[1]
        THEN << Pattern("latency_spike", "latency",
                        Min(((current_p95 - baseline) * 1000) \div (2 * baseline), 1000),
                        800, EmptyDict) >>
        ELSE <<>>

\* PaymentObserver.get_top_errors: the n most frequent codes, ties in the
\* order the codes were first seen
get_top_errors(obs, n) ==
    LET e == obs.error_codes
        Rank(i) == Cardinality({k \in DOMAIN e :
                       e[k].count > e[i].count \/ (e[k].count = e[i].count /\ k < i)}) + 1
        sorted_errors == [r \in DOMAIN e |-> e[CHOOSE i \in DOMAIN e : Rank(i) = r]]
    IN  SubSeq(sorted_errors, 1, Min(n, Len(e)))

\* PaymentReasoner._detect_error_clusters
_detect_error_clusters(rs, obs) ==
    LET total == get_transaction_volume(obs, "overall", "current")
        Flagged(e) == e.count >= Thresholds.error_cluster
        Make(e) ==
            Pattern("error_cluster", e.code,
                    Min((e.count * 10000) \div Max(total, 1), 1000),
                    _calculate_confidence(e.count, (e.count * 1000000) \div Max(total, 1)),
                    EmptyDict)
    IN  Collect(get_top_errors(obs, 5), Flagged, Make)

\* overall_rate - success_rate >= 0.20 as the doubles decide it.  Where the
\* difference of the two quotients is exactly one fifth the rounding decides:
\* 0.6 - 0.4 is 0.19999999999999996; for other quotients the operator has no
\* value there.
GapAtLeastFifth(overall, region) ==
    LET lhs == 5 * (overall[1] * region[2] - region[1] * overall[2])
        rhs == overall[2] * region[2]
    IN  CASE lhs > rhs -> TRUE
          [] lhs < rhs -> FALSE
          [] lhs = rhs /\ 5 * overall[1] = 3 * overall[2]
                       /\ 5 * region[1] = 2 * region[2] -> FALSE

\* PaymentReasoner._detect_geographic_issues
_detect_geographic_issues(rs, obs) ==
    LET Rate(region) == <<obs.stats["by_region"][region].success,
                          obs.stats["by_region"][region].total>>
        overall_rate == get_success_rate(obs, "overall", "current")
        Gap(region) ==
            (1000000 * (overall_rate[1] * Rate(region)[2]
                            - Rate(region)[1] * overall_rate[2]))
                \div (overall_rate[2] * Rate(region)[2])
        Flagged(region) ==
            /\ Rate(region)[2] >= 10
            /\ GapAtLeastFifth(overall_rate, Rate(region))
        Make(region) ==
            Pattern("geographic_issue", region,
                    Min(Gap(region) \div 400, 1000),
                    _calculate_confidence(Rate(region)[2], Gap(region)),
                    ("volume" :> Rate(region)[2]))
    IN  Collect(obs.key_order["by_region"], Flagged, Make)

\* patterns.sort(key=lambda p: p.severity, reverse=True), a stable sort
SortBySeverity(ps) ==
    LET Rank(i) == Cardinality({k \in DOMAIN ps :
                       ps[k].severity > ps[i].severity
                           \/ (ps[k].severity = ps[i].severity /\ k < i)}) + 1
    IN  [r \in DOMAIN ps |-> ps[CHOOSE i \in DOMAIN ps : Rank(i) = r]]

\* PaymentReasoner.analyze
analyze(rs, obs) ==
    SortBySeverity(_detect_issuer_degradation(rs, obs)
                       \o _detect_retry_storms(rs, obs)
                       \o _detect_method_fatigue(rs, obs)
                       \o _detect_latency_spikes(rs, obs)
                       \o _detect_error_clusters(rs, obs)
                       \o _detect_geographic_issues(rs, obs))

\* The issuers of get_issuer_health whose baseline update_baselines moves
HealthyIssuers(obs) ==
    {issuer \in Range(obs.key_order["by_issuer"]) :
        LET c == obs.stats["by_issuer"][issuer]
        IN  c.total > 0 /\ c.success * 10 >= 9 * c.total /\ c.total >= 20}

\* PaymentReasoner.update_baselines: 0.9 * baseline + 0.1 * current, rounded
\* down to the unit of the model
update_baselines(rs, obs) ==
    LET rate == get_success_rate(obs, "overall", "current")
        mean == LatencyMean(obs)
        Ema(current, value) == (9 * current + value) \div 10
        IssuerRate(issuer) == (1000000 * obs.stats["by_issuer"][issuer].success)
                                  \div obs.stats["by_issuer"][issuer].total
        old == rs.baselines.issuer_success_rates
    IN  [rs EXCEPT
            !.baselines.overall_success_rate =
                IF rate[1] * 10 >= 9 * rate[2]
                THEN Ema(@, (1000000 * rate[1]) \div rate[2]) ELSE @,
            !.baselines.issuer_success_rates =
                [issuer \in DOMAIN old \cup HealthyIssuers(obs) |->
                    IF issuer \in HealthyIssuers(obs)
                    THEN Ema(Get(old, issuer, DefaultRateBaseline), IssuerRate(issuer))
                    ELSE old[issuer]],
            !.baselines.avg_latency =
                IF mean[1] > 0 THEN Ema(@, (1000 * mean[1]) \div mean[2]) ELSE @]

(***************************************************************************)
(* PaymentAgent: the phases of run_cycle.                                  *)
(***************************************************************************)
SeverityFloor == 300

\* A variant in which the observe phase also clears the circuit breakers.
update_metrics_clearing_breakers(st, w) ==
    [st EXCEPT !.total_transactions = Len(w),
               !.active_circuit_breakers = {}]

\* A variant in which the observe phase starts a new hour of the counters.
update_metrics_resetting_counters(st, w) ==
    [st EXCEPT !.total_transactions = Len(w),
               !.actions_taken_last_hour = 0,
               !.rollbacks_last_hour = 0]

\* AgentState.update_metrics(list(observer.transactions_window))
update_metrics(st, w) ==
    LET total == Len(w)
        succ == CountIf(w, LAMBDA t : t.status = "success")
        lats == SelectSeq([i \in DOMAIN w |-> w[i].latency_ms], LAMBDA l : l > 0)
    IN  [st EXCEPT !.total_transactions = total,
                   !.successful_transactions = succ,
                   !.failed_transactions = CountIf(w, LAMBDA t : t.status = "failed"),
                   !.overall_success_rate = IF total > 0 THEN <<succ, total>> ELSE @,
                   !.average_latency_ms =
                       IF lats # <<>> THEN SeqSum(lats) \div Len(lats) ELSE @]

\* PaymentObserver.get_summary, the fields read from the window and counters
get_summary(obs) ==
    [total_transactions |-> Len(obs.transactions_window),
     overall_success_rate |-> get_success_rate(obs, "overall", "current")]

\* The body of the loop of _decide_and_act_phase from the decision d on, on
\* the accumulator m = [state, executor, actions, actions_taken].
ActOnDecision(m, pattern, d, obs, t_now) ==
    LET needs_approval == d.best_action.risk_level # "low"
        asks == needs_approval /\ d.best_action.authorization_level # "automatic"
        action == IF asks /\ d.best_action.risk_level = "medium"
                  THEN [d.best_action EXCEPT !.approver = "auto_approved_for_demo"]
                  ELSE d.best_action
        id == Len(m.actions) + 1
    IN  IF pattern.severity < SeverityFloor \/ ~d.selected
           \/ (asks /\ d.best_action.risk_level # "medium")
        THEN m
        ELSE The({ [state |-> IF r.ok
                              THEN [r.state EXCEPT !.actions_successful = @ + 1]
                              ELSE r.state,
                    executor |-> r.executor,
                    actions |-> r.actions,
                    actions_taken |-> IF r.ok THEN Append(m.actions_taken, id)
                                      ELSE m.actions_taken]
                   : r \in {execute(m.executor, Append(m.actions, action), m.state,
                                    obs, id, t_now)} })

\* for pattern in patterns: ...
RECURSIVE DecideActLoop(_, _, _, _)
DecideActLoop(m, patterns, obs, t_now) ==
    IF patterns = <<>> THEN m
    ELSE The({ DecideActLoop(next, Tail(patterns), obs, t_now) :
               next \in { ActOnDecision(m, Head(patterns), d, obs, t_now) :
                          d \in {decide(Head(patterns), m.state, DefaultWeights)} } })

\* The report of run_cycle; error = "" stands for a report without the key.
EmptyResults ==
    [cycle |-> 0, error |-> "",
     observation_summary |-> get_summary(ObserverInit),
     patterns_detected |-> <<>>,
     actions_taken |-> <<>>, rollbacks_executed |-> <<>>]

NoDecision == [selected |-> FALSE, reason |-> <<"", "">>]
NoRet == [op |-> "none"]

(***************************************************************************)
(* Steps.                                                                  *)
(***************************************************************************)
Tick(d) ==
    /\ now + d <= MaxTime
    /\ now' = now + d
    /\ ret' = NoRet
    /\ UNCHANGED <<observer, reasoner, state, executor, actions, pc, cycle_count, results, decision>>

\* PaymentAgent.process_transaction
Ingest(kind, age) ==
    /\ pc = "idle"
    /\ observer.ingested < MaxIngest
    /\ observer' = ingest_transaction(observer, Stamp(kind, now - age), now)
    /\ ret' = NoRet
    /\ UNCHANGED <<now, reasoner, state, executor, actions, pc, cycle_count, results, decision>>

\* A variant in which a producer's process_batch runs between the phases of
\* a cycle as well.
IngestBatchDuringCycle(kinds) ==
    /\ observer.batches < MaxBatches
    /\ observer' = [ingest_batch(observer,
                                 [i \in DOMAIN kinds |-> Stamp(kinds[i], now)], now)
                        EXCEPT !.batches = @ + 1]
    /\ ret' = NoRet
    /\ UNCHANGED <<now, reasoner, state, executor, actions, pc, cycle_count, results, decision>>

\* PaymentAgent.process_batch.  The callers of the repository (the async
\* request handlers of the API, which hold no await, and the loops of
\* main.py) run process_batch and run_cycle one after the other on one
\* thread, so a batch arrives between cycles.
IngestBatch(kinds) ==
    /\ pc = "idle"
    /\ observer.batches < MaxBatches
    /\ observer' = [ingest_batch(observer,
                                 [i \in DOMAIN kinds |-> Stamp(kinds[i], now)], now)
                        EXCEPT !.batches = @ + 1]
    /\ ret' = NoRet
    /\ UNCHANGED <<now, reasoner, state, executor, actions, pc, cycle_count, results, decision>>

\* A call of PaymentExecutor.execute on the Action object id
Execute(id) ==
    /\ pc = "idle"
    /\ Len(executor.execution_log) < MaxExec
    /\ \E r \in {execute(executor, actions, state, observer, id, now)} :
           /\ state' = r.state
           /\ executor' = r.executor
           /\ actions' = r.actions
           /\ ret' = [op |-> "execute", id |-> id, ok |-> r.ok, message |-> r.message]
    /\ UNCHANGED <<now, observer, reasoner, pc, cycle_count, results, decision>>

\* A call of PaymentExecutor.monitor_and_rollback
MonitorAndRollback ==
    /\ pc = "idle"
    /\ \E m \in {monitor_and_rollback(executor, actions, state, observer, now)} :
           /\ state' = m.state
           /\ executor' = m.executor
           /\ actions' = m.actions
           /\ ret' = [op |-> "monitor", rolled_back |-> m.rolled_back,
                      reasons |-> m.reasons]
    /\ UNCHANGED <<now, observer, reasoner, pc, cycle_count, results, decision>>

\* A call of PaymentDecisionMaker.decide.  The decision is kept with the
\* context the call was given, with what lay outside of the context (the
\* time, the executor and the actions known so far), and with whether the
\* call before it had the same context in other surroundings.
Decide(pattern) ==
    /\ pc = "idle"
    /\ \E context \in {[current_state |-> state, weights |-> DefaultWeights]},
          outside \in {[now |-> now, executor |-> executor, actions |-> actions]} :
           decision' = [decide(pattern, context.current_state, context.weights)
                            EXCEPT !.evaluated = <<>>]
                           @@ [pattern |-> pattern, context |-> context,
                               outside |-> outside,
                               repeated |-> /\ decision # NoDecision
                                            /\ decision.pattern = pattern
                                            /\ decision.context = context
                                            /\ decision.outside # outside]
    /\ ret' = [op |-> "decide"]
    /\ UNCHANGED <<now, observer, reasoner, state, executor, actions, pc, cycle_count,
                   results>>

\* run_cycle up to and including _observe_phase
CycleObserve ==
    /\ pc = "idle"
    /\ cycle_count < MaxCycles
    /\ cycle_count' = cycle_count + 1
    /\ state' = update_metrics(state, observer.transactions_window)
    /\ results' = [EmptyResults EXCEPT !.cycle = cycle_count + 1,
                                       !.observation_summary = get_summary(observer)]
    /\ pc' = "observed"
    /\ ret' = NoRet
    /\ UNCHANGED <<now, observer, reasoner, executor, actions, decision>>

\* _reason_phase, which reports the patterns it detected, and
\* _decide_and_act_phase on them
CycleDecideAct ==
    /\ pc = "observed"
    /\ \E patterns \in {analyze(reasoner, observer)} :
       \E m \in {DecideActLoop([state |-> state, executor |-> executor,
                                actions |-> actions, actions_taken |-> <<>>],
                               patterns, observer, now)} :
           /\ state' = m.state
           /\ executor' = m.executor
           /\ actions' = m.actions
           /\ results' = [results EXCEPT !.patterns_detected = patterns,
                                         !.actions_taken = m.actions_taken]
    /\ pc' = "acted"
    /\ ret' = NoRet
    /\ UNCHANGED <<now, observer, reasoner, cycle_count, decision>>

\* results['rollbacks_executed'] = rolled_back: the entries of the report,
\* each as the record of what it carries, which is the id of the action.
ReportRollbacks(rolled_back) ==
    [i \in DOMAIN rolled_back |-> [action_id |-> rolled_back[i]]]

\* _monitor_phase, _learn_phase and reasoner.update_baselines, the end of
\* run_cycle.
CycleMonitor ==
    /\ pc = "acted"
    /\ \E m \in {monitor_and_rollback(executor, actions, state, observer, now)} :
           /\ state' = m.state
           /\ executor' = m.executor
           /\ actions' = _learn_phase(m.executor, m.actions, observer, now)
           /\ results' = [results EXCEPT
                              !.rollbacks_executed = ReportRollbacks(m.rolled_back)]
    /\ reasoner' = update_baselines(reasoner, observer)
    /\ pc' = "idle"
    /\ ret' = NoRet
    /\ UNCHANGED <<now, observer, cycle_count, decision>>

\* The phases in which the fault steps let an exception be raised: at the
\* start of the observe phase, in the decide-and-act phase before its first
\* execute, at the start of the monitor phase, and in the learn phase that
\* follows the monitor phase.
RaisingPhases == {"observe", "decide_act", "monitor", "learn"}

\* The six detectors analyze calls, in its order, by the pattern type each
\* one produces.
Detectors ==
    <<"issuer_degradation", "retry_storm", "method_fatigue", "latency_spike",
      "error_cluster", "geographic_issue">>

\* A variant in which the exception leaves run_cycle: no report is returned.
CycleRaiseEscapes(phase) ==
    /\ phase \in RaisingPhases
    /\ pc = (CASE phase = "observe" -> "idle"
               [] phase = "decide_act" -> "observed"
               [] OTHER -> "acted")
    /\ phase = "observe" => cycle_count < MaxCycles
    /\ cycle_count' = IF phase = "observe" THEN cycle_count + 1 ELSE cycle_count
    /\ pc' = "idle"
    /\ ret' = [op |-> "raise", phase |-> phase]
    /\ UNCHANGED <<now, observer, reasoner, state, executor, actions, results, decision>>

\* run_cycle when a phase raises an Exception: the statements of the try
\* block after the raise are skipped, the except clause writes the error
\* into the report, and the report is returned.
CycleRaise(phase) ==
    /\ phase \in RaisingPhases
    /\ pc = (CASE phase = "observe" -> "idle"
               [] phase = "decide_act" -> "observed"
               [] OTHER -> "acted")
    /\ phase = "observe" => cycle_count < MaxCycles
    /\ cycle_count' = IF phase = "observe" THEN cycle_count + 1 ELSE cycle_count
    /\ \E m \in {IF phase = "learn"
                  THEN monitor_and_rollback(executor, actions, state, observer, now)
                  ELSE [state |-> state, executor |-> executor, actions |-> actions,
                        rolled_back |-> <<>>]} :
           /\ state' = m.state
           /\ executor' = m.executor
           /\ actions' = m.actions
           /\ results' =
                  [(IF phase = "observe"
                    THEN [EmptyResults EXCEPT !.cycle = cycle_count + 1]
                    ELSE IF phase = "decide_act"
                    THEN [results EXCEPT !.patterns_detected = analyze(reasoner, observer)]
                    ELSE IF phase = "learn"
                    THEN [results EXCEPT
                              !.rollbacks_executed = ReportRollbacks(m.rolled_back)]
                    ELSE results)
                   EXCEPT !.error = "raised"]
    /\ pc' = "idle"
    /\ ret' = [op |-> "raise", phase |-> phase]
    /\ UNCHANGED <<now, observer, reasoner, decision>>

\* run_cycle when the detector at position d of analyze raises: analyze has no
\* handler, so the exception leaves analyze and _reason_phase and reaches the
\* except clause of run_cycle.
CycleDetectorRaises(d) ==
    /\ d \in DOMAIN Detectors
    /\ pc = "observed"
    /\ results' = [results EXCEPT !.error = "raised"]
    /\ pc' = "idle"
    /\ ret' = [op |-> "raise", phase |-> "reason", detector |-> Detectors[d]]
    /\ UNCHANGED <<now, observer, reasoner, state, executor, actions, cycle_count, decision>>

\* PaymentAgent.process_transaction of a record that is older than the
\* window, arriving when every record of the window has gone stale: the
\* cleanup of this ingest evicts the whole window and the late record.
IngestLate(kind, age) ==
    /\ pc = "idle"
    /\ age > WindowSizeMinutes
    /\ observer.transactions_window # <<>>
    /\ \A i \in DOMAIN observer.transactions_window :
           observer.transactions_window[i].timestamp < now - WindowSizeMinutes
    /\ observer' = ingest_transaction(observer, Stamp(kind, now - age), now)
    /\ ret' = NoRet
    /\ UNCHANGED <<now, reasoner, state, executor, actions, pc, cycle_count, results, decision>>

(***************************************************************************)
(* The observer alone: transactions arrive one at a time, carrying the     *)
(* current time or an older timestamp, and time passes.                    *)
(***************************************************************************)
InitFresh ==
    /\ now = 0
    /\ observer = ObserverInit
    /\ reasoner = ReasonerInit
    /\ state = AgentStateInit(0, 0)
    /\ executor = ExecutorInit
    /\ actions = <<>>
    /\ pc = "idle"
    /\ cycle_count = 0
    /\ results = EmptyResults
    /\ decision = NoDecision
    /\ ret = NoRet

NextObserver ==
    \/ \E d \in TickSteps : Tick(d)
    \/ \E kind \in TxnKinds, age \in Ages : Ingest(kind, age)

SpecObserver == InitFresh /\ [][NextObserver]_vars

(***************************************************************************)
(* Properties of the observer.                                             *)
(***************************************************************************)
\* C1: in every dimension and under every key the counters satisfy
\* total = success + failed, and none of the three is negative, after any
\* sequence of ingests and the evictions they trigger.
C1_CountersConsistent ==
    \A d \in Dims : \A k \in KeysOf(d) :
        LET s == observer.stats[d][k]
        IN  /\ s.total = s.success + s.failed
            /\ s.total >= 0 /\ s.success >= 0 /\ s.failed >= 0

\* Three records were ingested, two have been evicted (one of them a record
\* that was already expired on arrival), and a failed one is still counted.
C1_Witness ==
    /\ now = 20
    /\ observer.ingested = 3
    /\ Len(observer.transactions_window) = 1
    /\ observer.stats["overall"]["current"] = [success |-> 0, failed |-> 1, total |-> 1]
    /\ observer.stats["by_issuer"]["ICICI"].total = 1

\* C18: whenever the window holds no transaction (initially, or after every
\* ingested transaction has been evicted), the success rate is 1.0, the
\* latency statistics (mean, p50, p95, p99, max) are all zero, and analyze
\* emits no pattern.
C18_EmptyWindowIsQuiet ==
    observer.transactions_window = <<>> =>
        /\ get_success_rate(observer, "overall", "current") = <<1, 1>>
        /\ get_latency_stats(observer)
               = [p50 |-> 0, p95 |-> 0, p99 |-> 0, mean |-> 0, max |-> 0]
        /\ analyze(reasoner, observer) = <<>>

(***************************************************************************)
(* Eviction of batches: producers submit batches of two records, possibly  *)
(* the same batch again, time passes, and a late record arrives.           *)
(***************************************************************************)
EvictionBatches ==
    { << Txn(0, "success", "HDFC", "upi", "IN", "m1", 100),
         [Txn(0, "failed", "HDFC", "credit_card", "IN", "m1", 300)
              EXCEPT !.error_code = "ISSUER_DOWN"] >>,
      << Txn(0, "pending", "ICICI", "upi", "US", "m1", 0),
         [Txn(0, "retry", "ICICI", "credit_card", "US", "m1", 100)
              EXCEPT !.is_retry = TRUE] >>,
      << Txn(0, "success", "ICICI", "upi", "IN", "m1", 200),
         Txn(0, "success", "HDFC", "credit_card", "US", "m1", 0) >> }

NextEviction ==
    \/ \E d \in TickSteps : Tick(d)
    \/ \E b \in EvictionBatches : IngestBatch(b)
    \/ \E kind \in TxnKinds, age \in Ages : IngestLate(kind, age)

SpecEviction == InitFresh /\ [][NextEviction]_vars

\* The window holds one batch twice: its second half repeats its first half,
\* timestamps aside.
SameBatchTwice(w) ==
    /\ w # <<>> /\ Len(w) % 2 = 0
    /\ \A i \in 1..(Len(w) \div 2) :
           Stamp(w[i], 0) = Stamp(w[i + Len(w) \div 2], 0)

AllCountersZero(obs) ==
    \A d \in Dims : \A k \in KeysOf(d) : obs.stats[d][k] = ZeroCounter

\* C19: ingesting the same batch twice and then letting the window evict all
\* of those transactions leaves every stats counter (success, failed, total,
\* for every dimension and key) at 0.
C19_TwiceIngestedEvictedToZero ==
    [][ ( /\ SameBatchTwice(observer.transactions_window)
          /\ observer'.transactions_window = <<>> )
        => AllCountersZero(observer') ]_vars

\* The first batch was ingested twice, at different times, and the arrival of
\* a late record has evicted the four records and itself.
C19_Witness ==
    /\ observer.transactions_window = <<>>
    /\ observer.batches = 2 /\ observer.ingested = 5
    /\ observer.key_order["by_issuer"] = <<"HDFC">>
    /\ observer.latencies = <<100, 300, 100, 300, 100>>
    /\ AllCountersZero(observer)

(***************************************************************************)
(* The agent: batches of transactions arrive, time passes, and run_cycle   *)
(* goes through its phases.                                                *)
(***************************************************************************)
\* Thirty payments through an issuer at 40% success, ten through a healthy
\* one, and ten slow ones of which half are retries.
KD(st, code) ==
    [Txn(0, st, "HDFC", "upi", "IN", "m1", 200) EXCEPT !.error_code = code]
KH == Txn(0, "success", "ICICI", "credit_card", "US", "m1", 200)
KR == [Txn(0, "success", "ICICI", "credit_card", "US", "m1", 400) EXCEPT !.is_retry = TRUE]
KL == Txn(0, "success", "ICICI", "credit_card", "US", "m1", 400)

DegradedBatch ==
    [i \in 1..30 |-> IF i <= 12 THEN KD("success", "") ELSE KD("failed", "ISSUER_DOWN")]
HealthyBatch == [i \in 1..10 |-> KH]
RetryBatch == [i \in 1..10 |-> IF i <= 5 THEN KR ELSE KL]

AgentBatches == {DegradedBatch, HealthyBatch, RetryBatch}

Next ==
    \/ \E d \in TickSteps : Tick(d)
    \/ \E b \in AgentBatches : IngestBatch(b)
    \/ CycleObserve
    \/ CycleDecideAct
    \/ CycleMonitor

Spec == InitFresh /\ [][Next]_vars

\* Every record held in the window is at most window_size old.
WindowFresh ==
    \A i \in DOMAIN observer.transactions_window :
        observer.transactions_window[i].timestamp >= now - WindowSizeMinutes

\* C2: when run_cycle has read the window in its observe phase, every record
\* held in the window has timestamp >= now - window_size.
C2_WindowFreshWhenObserved == pc = "observed" => WindowFresh

\* While a cycle is running no producer changes the window or the counters.
ObserverStableInCycle == pc # "idle" => observer' = observer

\* What the phases of the running cycle have read is the window and the
\* counters as they are: the observe phase reported and stored the summary of
\* the whole window, and the reason phase reported the patterns of that window.
PhasesSawWindow ==
    /\ pc \in {"observed", "acted"} =>
           /\ results.observation_summary = get_summary(observer)
           /\ state.total_transactions = Len(observer.transactions_window)
           /\ state.total_transactions
                  = observer.stats["overall"]["current"].total
    /\ pc = "acted" => results.patterns_detected = analyze(reasoner, observer)

NextFaulty ==
    \/ \E d \in TickSteps : Tick(d)
    \/ \E b \in AgentBatches : IngestBatch(b)
    \/ CycleObserve
    \/ CycleDecideAct
    \/ CycleMonitor
    \/ \E phase \in RaisingPhases : CycleRaise(phase)
    \/ \E d \in DOMAIN Detectors : CycleDetectorRaises(d)

SpecFaulty == InitFresh /\ [][NextFaulty]_vars

\* The invocation in which a phase raised has advanced the counter by one,
\* has ended, and its report carries the error and the number of the cycle.
RaiseCaptured ==
    ret'.op = "raise" =>
        /\ pc' = "idle"
        /\ results'.error # ""
        /\ results'.cycle = cycle_count'
        /\ cycle_count' = IF pc = "idle" THEN cycle_count + 1 ELSE cycle_count

\* The invocation after one that raised starts as any other: it advances the
\* counter by one and its report is a fresh one without error, holding the
\* summary of the window.
NextCycleNormal ==
    ( /\ pc = "idle" /\ results.error # ""
      /\ pc' = "observed" )
    => /\ cycle_count' = cycle_count + 1
       /\ results' = [EmptyResults EXCEPT !.cycle = cycle_count + 1,
                                          !.observation_summary = get_summary(observer)]

C17_DetectorFailureLocalised ==
    [][ ret'.op = "raise" /\ ret'.phase = "reason" =>
          \A others \in {SelectSeq(analyze(reasoner, observer),
                                    LAMBDA p : p.pattern_type # ret'.detector)} :
              /\ results'.patterns_detected = others
              /\ \A m \in {DecideActLoop([state |-> state, executor |-> executor,
                                          actions |-> actions, actions_taken |-> <<>>],
                                         others, observer, now)} :
                     /\ results'.actions_taken = m.actions_taken
                     /\ executor'.active_interventions
                            = m.executor.active_interventions ]_vars

(***************************************************************************)
(* The executor alone: a caller holds the Action objects of ActionPool and *)
(* calls execute and monitor_and_rollback in any order while batches       *)
(* arrive and time passes.                                                 *)
(***************************************************************************)
\* Windows of five and of four payments with one failure each
KS == Txn(0, "success", "HDFC", "upi", "IN", "m1", 100)
KF == Txn(0, "failed", "HDFC", "upi", "IN", "m1", 300)

Batches == { <<KS, KS, KS, KS, KF>>, <<KS, KS, KS, KF>> }

CommonImpact == Impact(150, -200, 20, 1000)

ActionPool ==
    << Action("circuit_breaker", "HDFC",
              ("issuer" :> "HDFC") @@ ("duration_minutes" :> 10),
              "medium", "automatic", "", 900, CommonImpact),
       Action("circuit_breaker", "HDFC",
              ("issuer" :> "HDFC") @@ ("duration_minutes" :> 10),
              "medium", "automatic", "", 900, CommonImpact),
       Action("circuit_breaker", "hdfc_gateway",
              ("issuer" :> "HDFC") @@ ("duration_minutes" :> 30),
              "medium", "automatic", "", 900, CommonImpact),
       Action("adjust_retry", "global_retry_strategy",
              ("max_retries" :> 2) @@ ("backoff_multiplier" :> 2),
              "low", "automatic", "", 900, CommonImpact) >>

InitExecutor ==
    /\ now = 0
    /\ observer = ObserverInit
    /\ reasoner = ReasonerInit
    /\ state = AgentStateInit(0, 0)
    /\ executor = ExecutorInit
    /\ actions = ActionPool
    /\ pc = "idle"
    /\ cycle_count = 0
    /\ results = EmptyResults
    /\ decision = NoDecision
    /\ ret = NoRet

NextExecutor ==
    \/ \E d \in TickSteps : Tick(d)
    \/ \E b \in Batches : IngestBatch(b)
    \/ \E id \in DOMAIN actions : Execute(id)
    \/ MonitorAndRollback

SpecExecutor == InitExecutor /\ [][NextExecutor]_vars

(***************************************************************************)
(* Properties of the executor.                                             *)
(***************************************************************************)
ActiveIds == Range(executor.active_interventions)

SameKey(a, b) == a.action_type = b.action_type /\ a.target = b.target

NoDuplicateActive ==
    \A i, j \in DOMAIN executor.active_interventions :
        i # j => ~SameKey(actions[executor.active_interventions[i]],
                          actions[executor.active_interventions[j]])

\* A step that is a call of execute on an action whose (action_type, target)
\* is that of an active intervention is rejected and changes nothing.
DuplicateRejected ==
    ( /\ ret'.op = "execute"
      /\ \E other \in ActiveIds : SameKey(actions[other], actions[ret'.id]) )
    => /\ ~ret'.ok
       /\ UNCHANGED <<state, executor, actions>>

\* C3: no two active interventions share (action_type, target), and an
\* execute call for an action whose (action_type, target) is that of an
\* active intervention is rejected and changes nothing.
C3_ActiveKeysUnique == []NoDuplicateActive /\ [][DuplicateRejected]_vars

\* The second circuit breaker on HDFC was offered while the first was active,
\* and was rejected.
C3_Witness ==
    /\ ret.op = "execute" /\ ret.id = 2 /\ ~ret.ok
    /\ ret.message = "Similar action already active"
    /\ 1 \in ActiveIds
    /\ actions[2].status = "pending"

\* C7: rollbacks_last_hour never exceeds actions_executed, over any sequence
\* of execute and monitor_and_rollback calls.
C7_RollbacksAtMostExecuted == state.rollbacks_last_hour <= state.actions_executed

\* Two actions were executed and both have been rolled back.
C7_Witness ==
    /\ state.rollbacks_last_hour = 2
    /\ state.actions_executed = 2
    /\ ActiveIds = {}

\* The state write of the action's execution is present in st.
KnobWritten(action, st) ==
    CASE action.action_type = "circuit_breaker" ->
            Get(action.parameters, "issuer", "") \in st.active_circuit_breakers
      [] action.action_type = "adjust_retry" ->
            action.target \in DOMAIN st.retry_strategies
      [] action.action_type = "route_change" ->
            action.target \in DOMAIN st.routing_overrides
      [] action.action_type = "method_suppress" ->
            Get(action.parameters, "payment_method", "") \in st.suppressed_methods
      [] OTHER -> FALSE

\* From the current state, executing the circuit breaker id and rolling it
\* back leaves active_circuit_breakers as it is now.
BreakerRoundTrip(id) ==
    \A r \in {execute(executor, actions, state, observer, id, now)} :
        (actions[id].action_type = "circuit_breaker" /\ r.ok)
        => _rollback_action(r.executor, r.actions, r.state, id, now)
               .state.active_circuit_breakers = state.active_circuit_breakers

\* C4: executing a circuit_breaker action and then rolling it back returns
\* active_circuit_breakers to exactly its value before the execution, and
\* after the rollback of any active intervention the state write of its
\* execution is gone.
C4_RollbackRestores ==
    /\ \A id \in DOMAIN actions : BreakerRoundTrip(id)
    /\ \A id \in ActiveIds :
           ~KnobWritten(actions[id],
                        _rollback_action(executor, actions, state, id, now).state)

\* baseline - current > 0.05 in exact arithmetic on the rates b and c.
ExactDropAbove(b, c) ==
    (b[1] * c[2] - c[1] * b[2]) * SuccessRateDropThreshold[2]
        > b[2] * c[2] * SuccessRateDropThreshold[1]

\* The rate in the snapshot logged when id was executed.
BaselineRate(id) == _find_baseline_for_action(executor, id).metrics.success_rate

CurrentRate == get_success_rate(observer, "overall", "current")

RolledBackFor(r, id, reason) ==
    \E i \in DOMAIN r.rolled_back : r.rolled_back[i] = id /\ r.reasons[i] = reason

\* A pass of monitor_and_rollback rolls back every active intervention whose
\* baseline exceeds the current rate by more than 0.05.
DropRolledBack ==
    ret'.op = "monitor" =>
        /\ \A id \in ActiveIds :
               ExactDropAbove(BaselineRate(id), CurrentRate) =>
                   /\ RolledBackFor(ret', id, "Success rate dropped")
                   /\ id \notin ActiveIds'
                   /\ actions'[id].status = "rolled_back"
                   /\ ~KnobWritten(actions[id], state')
        /\ state'.rollbacks_last_hour =
               state.rollbacks_last_hour + Len(ret'.rolled_back)

\* A pass of monitor_and_rollback does not roll back by the success-rate rule
\* where the drop is 0.05 or less.
SmallDropKept ==
    ret'.op = "monitor" =>
        \A id \in ActiveIds :
            ~ExactDropAbove(BaselineRate(id), CurrentRate) =>
                ~RolledBackFor(ret', id, "Success rate dropped")

\* C5: when monitor_and_rollback runs and the success rate logged at an active
\* intervention's execution exceeds the current one by more than 0.05, the
\* intervention is rolled back in that pass (write reversed, removed from the
\* active set, status rolled_back, rollbacks_last_hour counted up, id
\* returned); a drop of exactly 0.05 or less does not roll back by this rule.
C5_DropTriggersRollback == [][DropRolledBack /\ SmallDropKept]_vars

\* The rollback half alone: a drop above 0.05 is rolled back in the same pass.
C5_LargeDropPart == [][DropRolledBack]_vars

(***************************************************************************)
(* The safety gates: the AgentState has its counters already at the values *)
(* of SeedTaken and SeedRollbacks, the observer has ingested one of        *)
(* SeededWindows, and a caller calls decide on the patterns the reasoner   *)
(* reports, and execute.                                                   *)
(***************************************************************************)
\* The patterns analyze reports for the first of SeededWindows on the issuer
\* and on the region
IssuerPattern == Pattern("issuer_degradation", "HDFC", 1000, 518, ("volume" :> 30))
GeographicPattern == Pattern("geographic_issue", "IN", 750, 518, ("volume" :> 30))

SeedTaken == {0, 49, 50}
SeedRollbacks == {0, 2, 3, 9, 10}

\* The batches ingested before the calls: a failing issuer among healthy
\* traffic, and a retry storm of slow payments
SeededWindows ==
    { <<DegradedBatch, HealthyBatch, HealthyBatch, HealthyBatch>>, <<RetryBatch>> }

\* process_batch for each of the batches in turn
RECURSIVE IngestAll(_, _, _)
IngestAll(obs, batches, t_now) ==
    IF batches = <<>> THEN obs
    ELSE The({ IngestAll(next, Tail(batches), t_now) :
               next \in {ingest_batch(obs, Head(batches), t_now)} })

RiskPool ==
    << Action("adjust_retry", "global_retry_strategy", ("max_retries" :> 2),
              "low", "automatic", "", 900, CommonImpact),
       Action("circuit_breaker", "HDFC", ("issuer" :> "HDFC"),
              "medium", "automatic", "", 900, CommonImpact),
       Action("method_suppress", "upi", ("payment_method" :> "upi"),
              "high", "automatic", "", 900, CommonImpact),
       Action("route_change", "region_IN", ("region" :> "IN"),
              "critical", "manual", "ops", 900, CommonImpact),
       Action("route_change", "region_US", ("region" :> "US"),
              "low", "manual", "", 900, CommonImpact),
       Action("circuit_breaker", "ICICI", ("issuer" :> "ICICI"),
              "medium", "semi_automatic", "", 900, CommonImpact),
       Action("circuit_breaker", "SBI", ("issuer" :> "SBI"),
              "low", "semi_automatic", "", 900, CommonImpact),
       Action("adjust_retry", "global_retry_strategy", ("max_retries" :> 3),
              "low", "automatic", "", 900, CommonImpact) >>

InitSeeded ==
    /\ now = 0
    /\ \E batches \in SeededWindows : observer = IngestAll(ObserverInit, batches, 0)
    /\ reasoner = ReasonerInit
    /\ \E taken \in SeedTaken, rollbacks \in SeedRollbacks :
           state = update_metrics(AgentStateInit(taken, rollbacks),
                                  observer.transactions_window)
    /\ executor = ExecutorInit
    /\ actions = RiskPool
    /\ pc = "idle"
    /\ cycle_count = 0
    /\ results = EmptyResults
    /\ decision = NoDecision
    /\ ret = NoRet

NextSeeded ==
    \/ \E pattern \in Range(analyze(reasoner, observer)) : Decide(pattern)
    \/ \E id \in DOMAIN actions : Execute(id)

SpecSeeded == InitSeeded /\ [][NextSeeded]_vars

\* can_take_action allows exactly below the three limits.
GateAsSpecified ==
    \A id \in DOMAIN actions :
        can_take_action(state, actions[id])[1]
        <=> /\ state.actions_taken_last_hour < 50
            /\ state.rollbacks_last_hour < 10
            /\ actions[id].risk_level \in {"high", "critical"}
                   => state.rollbacks_last_hour < 3

\* At three rollbacks, below the hourly cap, a high-risk action is blocked with
\* the reason of the high-risk gate.
HighRiskBlockedAtThree ==
    \A id \in DOMAIN actions :
        ( /\ state.rollbacks_last_hour = 3
          /\ state.actions_taken_last_hour < 50
          /\ actions[id].risk_level = "high" )
        => can_take_action(state, actions[id])
               = <<FALSE, "High-risk action blocked due to recent rollbacks">>

\* A call of execute on an action the gate denies does not succeed.
DeniedNotExecuted ==
    ( /\ ret'.op = "execute"
      /\ ~can_take_action(state, actions[ret'.id])[1] )
    => /\ ~ret'.ok
       /\ UNCHANGED <<state, executor>>

\* C6: can_take_action allows an action iff actions_taken_last_hour < 50 and
\* rollbacks_last_hour < 10 and (risk high or critical implies
\* rollbacks_last_hour < 3); at rollbacks_last_hour = 3 (the hourly cap not
\* reached) a high-risk action is blocked with reason "High-risk action
\* blocked due to recent rollbacks"; and no execute call succeeds for an
\* action that can_take_action denies.
C6_SafetyGate ==
    /\ [](GateAsSpecified /\ HighRiskBlockedAtThree)
    /\ [][DeniedNotExecuted]_vars

\* execute was called on the high-risk action at three rollbacks and refused.
C6_Witness ==
    /\ state.rollbacks_last_hour = 3
    /\ ret.op = "execute" /\ ret.id = 3 /\ ~ret.ok
    /\ ret.message = "High-risk action blocked due to recent rollbacks"
    /\ actions[3].status = "pending"
    /\ ActiveIds = {}

\* The three grounds of a pre-execution rejection, read off the state before
\* the call.
AuthorizationMissing(action) ==
    \/ action.authorization_level = "manual" /\ action.approver = ""
    \/ /\ action.authorization_level = "semi_automatic"
       /\ action.approver = "" /\ action.risk_level # "low"

GateClosed(st, action) ==
    \/ st.actions_taken_last_hour >= 50
    \/ st.rollbacks_last_hour >= 10
    \/ action.risk_level \in {"high", "critical"} /\ st.rollbacks_last_hour >= 3

SimilarActive(id) ==
    \E other \in ActiveIds : SameKey(actions[other], actions[id])

\* C11: execute rejects an action of authorization level manual without
\* approver, and one of level semi_automatic without approver whose risk is
\* not low; on every pre-execution rejection (authorization, AgentState gate,
\* similar active intervention) it returns (false, reason) and leaves the
\* control knobs, the active interventions, the execution log,
\* actions_executed and actions_taken_last_hour unchanged.
C11_RejectionWritesNothing ==
    [][ ( /\ ret'.op = "execute"
          /\ \/ AuthorizationMissing(actions[ret'.id])
             \/ GateClosed(state, actions[ret'.id])
             \/ SimilarActive(ret'.id) )
        => /\ ~ret'.ok
           /\ ret'.message \in {"Manual authorization required",
                                 "Semi-automatic action requires approval for non-low risk",
                                 "Hourly action limit reached",
                                 "Too many rollbacks in last hour",
                                 "High-risk action blocked due to recent rollbacks",
                                 "Similar action already active"}
           /\ AuthorizationMissing(actions[ret'.id]) =>
                  ret'.message \in {"Manual authorization required",
                                    "Semi-automatic action requires approval for non-low risk"}
           /\ Knobs(state') = Knobs(state)
           /\ executor' = executor
           /\ state'.actions_executed = state.actions_executed
           /\ state'.actions_taken_last_hour = state.actions_taken_last_hour ]_vars

\* After one execution, execute has refused the semi_automatic action of
\* medium risk that has no approver, and the low-risk one was executed.
C11_Witness ==
    /\ ret.op = "execute" /\ ret.id = 6 /\ ~ret.ok
    /\ ret.message = "Semi-automatic action requires approval for non-low risk"
    /\ actions[6].status = "pending"
    /\ actions[7].status = "executed"
    /\ state.actions_executed = 1

(***************************************************************************)
(* Properties of the decision maker.                                       *)
(***************************************************************************)
MentionsRollbacks(reason) ==
    reason[2] \in {"Too many rollbacks in last hour",
                   "High-risk action blocked due to recent rollbacks"}

TopCandidates(pattern, st) ==
    LET cands == _generate_actions(pattern, st)
        Score(i) == _evaluate_action(cands[i], pattern, st, DefaultWeights)
    IN  {cands[i] : i \in {j \in DOMAIN cands : \A k \in DOMAIN cands : Score(k) <= Score(j)}}

\* C10: decide returns either a candidate of the highest score, which the
\* safety gates allow, or none; when the gates block the top-scoring
\* candidate it returns none with a reason, never a candidate of lower score.
C10_TopCandidateOrNone ==
    [][ ret'.op = "decide" =>
          \A top \in {TopCandidates(decision'.pattern, state)} :
              /\ decision'.selected =>
                     /\ decision'.best_action \in top
                     /\ can_take_action(state, decision'.best_action)[1]
              /\ (\A c \in top : ~can_take_action(state, c)[1]) =>
                     /\ ~decision'.selected
                     /\ decision'.reason[1] = "Best action blocked" ]_vars

\* decide has returned none because the hourly cap blocks the top candidate
\* of the issuer pattern, and has returned the top candidate before.
C10_Witness ==
    /\ ret.op = "decide"
    /\ decision.pattern = IssuerPattern
    /\ ~decision.selected
    /\ decision.reason = <<"Best action blocked", "Hourly action limit reached">>
    /\ state.actions_taken_last_hour = 50
    /\ state.actions_executed = 1

\* An issuer_degradation pattern on HDFC of severity and confidence >= 0.5
DegradedHDFC(pattern) ==
    /\ pattern.pattern_type = "issuer_degradation"
    /\ pattern.affected_value = "HDFC"
    /\ pattern.severity >= 500
    /\ pattern.confidence >= 500

\* C8: in a cycle whose reason phase reports an issuer_degradation pattern on
\* HDFC with severity >= 0.5 and confidence >= 0.5 while no breaker is active
\* for HDFC, decide selects the circuit_breaker with target HDFC, and the act
\* phase adds HDFC to active_circuit_breakers and reports the action.
C8_BreakerOpenedForHDFC ==
    [][ ( /\ pc = "observed" /\ pc' = "acted"
          /\ "HDFC" \notin state.active_circuit_breakers )
        => \A i \in DOMAIN results'.patterns_detected :
             \A pattern \in {results'.patterns_detected[i]} :
               DegradedHDFC(pattern) =>
                 /\ \A d \in {decide(pattern, state, DefaultWeights)} :
                        /\ d.selected
                        /\ d.best_action.action_type = "circuit_breaker"
                        /\ d.best_action.target = "HDFC"
                 /\ "HDFC" \in state'.active_circuit_breakers
                 /\ \E id \in Range(results'.actions_taken) :
                        /\ actions'[id].action_type = "circuit_breaker"
                        /\ actions'[id].target = "HDFC" ]_vars

(***************************************************************************)
(* Concurrent interventions: a caller holds six Action objects of          *)
(* different type or target, all of low risk and automatic, and calls      *)
(* execute once on each, and monitor_and_rollback, while time passes.      *)
(***************************************************************************)
MaxConcurrentInterventions == 5
MinConfidenceForAction == 600

InterventionPool ==
    << Action("circuit_breaker", "HDFC",
              ("issuer" :> "HDFC") @@ ("duration_minutes" :> 10),
              "low", "automatic", "", 900, CommonImpact),
       Action("circuit_breaker", "ICICI", ("issuer" :> "ICICI"),
              "low", "automatic", "", 900, CommonImpact),
       Action("adjust_retry", "global_retry_strategy", ("max_retries" :> 2),
              "low", "automatic", "", 500, CommonImpact),
       Action("route_change", "region_IN", ("region" :> "IN"),
              "low", "automatic", "", 900, CommonImpact),
       Action("method_suppress", "upi", ("payment_method" :> "upi"),
              "low", "automatic", "", 900, CommonImpact),
       Action("alert_ops", "ops_team", ("pattern_type" :> "issuer_degradation"),
              "low", "automatic", "", 1000, Impact(0, 0, 0, 0)) >>

\* A call of PaymentExecutor.execute on an Action object not executed before
ExecutePending(id) ==
    /\ pc = "idle"
    /\ actions[id].status = "pending"
    /\ \E r \in {execute(executor, actions, state, observer, id, now)} :
           /\ state' = r.state
           /\ executor' = r.executor
           /\ actions' = r.actions
           /\ ret' = [op |-> "execute", id |-> id, ok |-> r.ok, message |-> r.message]
    /\ UNCHANGED <<now, observer, reasoner, pc, cycle_count, results, decision>>

InitInterventions ==
    /\ now = 0
    /\ observer = ObserverInit
    /\ reasoner = ReasonerInit
    /\ state = AgentStateInit(0, 0)
    /\ executor = ExecutorInit
    /\ actions = InterventionPool
    /\ pc = "idle"
    /\ cycle_count = 0
    /\ results = EmptyResults
    /\ decision = NoDecision
    /\ ret = NoRet

NextInterventions ==
    \/ \E d \in TickSteps : Tick(d)
    \/ \E id \in DOMAIN actions : ExecutePending(id)
    \/ MonitorAndRollback

SpecInterventions == InitInterventions /\ [][NextInterventions]_vars

\* C12: no action is executed while 5 or more interventions are active: an
\* execute attempted with 5 active is blocked, and the number of
\* concurrently active interventions never exceeds 5.
C12_AtMostFiveActive ==
    /\ [][ ( /\ ret'.op = "execute"
             /\ Len(executor.active_interventions) >= MaxConcurrentInterventions )
           => ~ret'.ok ]_vars
    /\ [](Len(executor.active_interventions) <= MaxConcurrentInterventions)

ExpiryPool ==
    << Action("circuit_breaker", "HDFC",
              ("issuer" :> "HDFC") @@ ("duration_minutes" :> 10),
              "low", "automatic", "", 900, CommonImpact),
       Action("adjust_retry", "global_retry_strategy", ("max_retries" :> 2),
              "low", "automatic", "", 900, CommonImpact),
       Action("no_action", "none", EmptyDict,
              "low", "automatic", "", 1000, Impact(0, 0, 0, 0)) >>

\* Time passes, up to MaxHorizon.
Elapse(d) ==
    /\ now + d <= MaxHorizon
    /\ now' = now + d
    /\ ret' = NoRet
    /\ UNCHANGED <<observer, reasoner, state, executor, actions, pc, cycle_count, results, decision>>

InitExpiry ==
    /\ now = 0
    /\ observer = ObserverInit
    /\ reasoner = ReasonerInit
    /\ state = AgentStateInit(0, 0)
    /\ executor = ExecutorInit
    /\ actions = ExpiryPool
    /\ pc = "idle"
    /\ cycle_count = 0
    /\ results = EmptyResults
    /\ decision = NoDecision
    /\ ret = NoRet

NextExpiry ==
    \/ \E d \in TickSteps : Elapse(d)
    \/ \E id \in DOMAIN actions : ExecutePending(id)
    \/ MonitorAndRollback

\* Time advances and the monitor pass keeps being called.
SpecExpiry ==
    /\ InitExpiry /\ [][NextExpiry]_vars
    /\ WF_vars(\E d \in TickSteps : Elapse(d))
    /\ WF_vars(MonitorAndRollback)

DurationOf(id) == Get(actions[id].parameters, "duration_minutes", 30)

Expired(id) ==
    /\ id \in ActiveIds
    /\ now - actions[id].executed_at > DurationOf(id)

\* The intervention is active and the clock of the model can pass its expiry.
ExpiryWithinHorizon(id) ==
    /\ id \in ActiveIds
    /\ \E d \in TickSteps : actions[id].executed_at + DurationOf(id) + d <= MaxHorizon

\* A monitor pass rolls back every intervention whose duration has expired,
\* whatever the metrics, and tells so.
ExpiredRolledBack ==
    ret'.op = "monitor" =>
        \A id \in DOMAIN actions :
            Expired(id) =>
                /\ id \notin Range(executor'.active_interventions)
                /\ id \in Range(ret'.rolled_back)
                /\ actions'[id].status = "rolled_back"

\* C14: once the time since executed_at exceeds parameters.duration_minutes
\* (30 when absent), the next monitor_and_rollback rolls the intervention back
\* even though success rate and latency have not degraded; so, while time
\* advances and monitor passes keep running, every active intervention
\* eventually leaves the active set.
C14_ExpiredLeavesActiveSet ==
    /\ [][ExpiredRolledBack]_vars
    /\ \A id \in DOMAIN ExpiryPool :
           ExpiryWithinHorizon(id) ~> (id \notin ActiveIds)

\* The action without a duration, executed at time 0, was rolled back at time
\* 40 for its expiry, with the metrics as they were at its execution.
C14_Witness ==
    /\ ret.op = "monitor"
    /\ 2 \in Range(ret.rolled_back)
    /\ ret.reasons = [i \in DOMAIN ret.rolled_back |-> "Action duration expired"]
    /\ actions[2].executed_at = 0 /\ actions[2].completed_at = 40
    /\ "parameters" \in DOMAIN actions[2]
    /\ "duration_minutes" \notin DOMAIN actions[2].parameters
    /\ _capture_baseline_metrics(observer, 0)
           = _find_baseline_for_action(executor, 2).metrics

(***************************************************************************)
(* The volume floors of the detectors: cycles over windows whose issuer,   *)
(* method and region volumes lie just below, at and above the floors.      *)
(***************************************************************************)
\* Nine and ten failed payments through HDFC / upi / IN, ten payments through
\* the same issuer of which eight succeed, and ten healthy payments through
\* ICICI / credit_card / US.
FloorBatches ==
    LET Failed(n) == [i \in 1..n |-> KD("failed", "ISSUER_DOWN")]
        EightOfTen == [i \in 1..10 |-> IF i <= 8 THEN KD("success", "")
                                                 ELSE KD("failed", "ISSUER_DOWN")]
    IN  {Failed(9), Failed(10), EightOfTen, HealthyBatch}

NextFloors ==
    \/ \E b \in FloorBatches : IngestBatch(b)
    \/ CycleObserve
    \/ CycleDecideAct
    \/ CycleMonitor

SpecFloors == InitFresh /\ [][NextFloors]_vars

\* The reason phase of the running cycle reported a pattern of this type for
\* this issuer, method or region.
Emitted(type, value) ==
    \E i \in DOMAIN results.patterns_detected :
        /\ results.patterns_detected[i].pattern_type = type
        /\ results.patterns_detected[i].affected_value = value

\* In-window volume and successes of a key of a dimension; 0 for a key the
\* observer has not seen.
VolumeOf(d, k) == IF k \in DOMAIN observer.stats[d] THEN observer.stats[d][k].total ELSE 0
SuccessOf(d, k) == IF k \in DOMAIN observer.stats[d] THEN observer.stats[d][k].success ELSE 0

FloorIssuers == {"HDFC", "ICICI"}
FloorMethods == {"upi", "credit_card"}
FloorRegions == {"IN", "US"}

\* No detector reports a key whose volume is below its floor.
NeverBelowFloor ==
    /\ \A k \in FloorIssuers :
           VolumeOf("by_issuer", k) < 10 => ~Emitted("issuer_degradation", k)
    /\ \A k \in FloorMethods :
           VolumeOf("by_method", k) < 20 => ~Emitted("method_fatigue", k)
    /\ \A k \in FloorRegions :
           VolumeOf("by_region", k) < 10 => ~Emitted("geographic_issue", k)

\* baseline - current, and overall - region, against the trigger gap, in exact
\* arithmetic: Cmp is >= for the gap being met, > for its being exceeded.
IssuerGap(k, Cmp(_, _)) ==
    Cmp(Get(reasoner.baselines.issuer_success_rates, k, DefaultRateBaseline)
            * VolumeOf("by_issuer", k) - 1000000 * SuccessOf("by_issuer", k),
        Thresholds.issuer_degradation * VolumeOf("by_issuer", k))
MethodGap(k, Cmp(_, _)) ==
    Cmp(Get(reasoner.baselines.method_success_rates, k, DefaultRateBaseline)
            * VolumeOf("by_method", k) - 1000000 * SuccessOf("by_method", k),
        Thresholds.method_fatigue * VolumeOf("by_method", k))
RegionGap(k, Cmp(_, _)) ==
    LET overall == get_success_rate(observer, "overall", "current")
    IN  Cmp(5 * (overall[1] * VolumeOf("by_region", k)
                     - SuccessOf("by_region", k) * overall[2]),
            overall[2] * VolumeOf("by_region", k))

\* At a volume of exactly the floor, a key whose gap Cmp holds is reported.
EmittedAtFloor(Cmp(_, _)) ==
    /\ \A k \in FloorIssuers :
           VolumeOf("by_issuer", k) = 10 /\ IssuerGap(k, Cmp)
               => Emitted("issuer_degradation", k)
    /\ \A k \in FloorMethods :
           VolumeOf("by_method", k) = 20 /\ MethodGap(k, Cmp)
               => Emitted("method_fatigue", k)
    /\ \A k \in FloorRegions :
           VolumeOf("by_region", k) = 10 /\ RegionGap(k, Cmp)
               => Emitted("geographic_issue", k)

GapMet(a, b) == a >= b
GapExceeded(a, b) == a > b

\* C20: issuer_degradation emits no pattern for an issuer with in-window
\* volume < 10, method_fatigue none for a method with volume < 20 and
\* geographic_issue none for a region with volume < 10, whatever the success
\* rates; at a volume equal to the floor with the trigger gap met
\* (baseline - current >= 0.15, >= 0.20, overall - region >= 0.20) the pattern
\* is emitted.
C20_EmitsAtFloorNeverBelow ==
    pc = "acted" => NeverBelowFloor /\ EmittedAtFloor(GapMet)

\* The part of C20 that holds: never below the floor, and at the floor
\* whenever the gap is more than the trigger.
C20_FloorPart ==
    pc = "acted" => NeverBelowFloor /\ EmittedAtFloor(GapExceeded)

\* A cycle over ten failed HDFC / IN payments and ten healthy ones reported
\* both the issuer and the region at exactly their floor of 10, and no method
\* at a volume of 10.
C20_FloorPartWitness ==
    /\ pc = "acted"
    /\ VolumeOf("by_issuer", "HDFC") = 10 /\ Emitted("issuer_degradation", "HDFC")
    /\ VolumeOf("by_region", "IN") = 10 /\ Emitted("geographic_issue", "IN")
    /\ VolumeOf("by_method", "upi") = 10 /\ ~Emitted("method_fatigue", "upi")

(***************************************************************************)
(* The agent in operation: batches arrive, cycles run, and a caller holds  *)
(* the Action objects of OperatedPool and calls execute and                *)
(* monitor_and_rollback, two of the objects lacking the parameter their    *)
(* type-specific write needs.                                              *)
(***************************************************************************)
OperatedPool ==
    << Action("circuit_breaker", "HDFC",
              ("issuer" :> "HDFC") @@ ("duration_minutes" :> 10),
              "medium", "automatic", "", 900, CommonImpact),
       Action("circuit_breaker", "ICICI", ("duration_minutes" :> 10),
              "medium", "automatic", "", 900, CommonImpact),
       Action("method_suppress", "upi", ("duration_minutes" :> 10),
              "high", "automatic", "", 900, CommonImpact) >>

InitOperated ==
    /\ now = 0
    /\ observer = ObserverInit
    /\ reasoner = ReasonerInit
    /\ state = AgentStateInit(0, 0)
    /\ executor = ExecutorInit
    /\ actions = OperatedPool
    /\ pc = "idle"
    /\ cycle_count = 0
    /\ results = EmptyResults
    /\ decision = NoDecision
    /\ ret = NoRet

NextOperated ==
    \/ \E d \in TickSteps : Tick(d)
    \/ IngestBatch(DegradedBatch)
    \/ \E id \in DOMAIN actions : Execute(id)
    \/ MonitorAndRollback
    \/ CycleObserve
    \/ CycleDecideAct
    \/ CycleMonitor

SpecOperated == InitOperated /\ [][NextOperated]_vars

\* A step that changes one of the four knobs is a successful execute or a
\* monitor pass with a rollback, called directly or by the act and monitor
\* phases of a cycle.
KnobsWrittenByExecutorOnly ==
    Knobs(state') # Knobs(state) =>
        \/ ret'.op = "execute" /\ ret'.ok
        \/ ret'.op = "monitor" /\ ret'.rolled_back # <<>>
        \/ pc = "observed" /\ pc' = "acted" /\ results'.actions_taken # <<>>
        \/ pc = "acted" /\ pc' = "idle" /\ results'.rollbacks_executed # <<>>

\* Ingest, the observe phase, decide, and the reason, learn and baseline
\* parts of a cycle leave the knobs as they are.
OthersLeaveKnobs ==
    LET other == \/ observer' # observer
                 \/ reasoner' # reasoner
                 \/ pc = "idle" /\ pc' = "observed"
                 \/ pc = "observed" /\ results'.actions_taken = <<>>
                 \/ \E id \in DOMAIN actions :
                        actions'[id].actual_impact # actions[id].actual_impact
    IN  other => Knobs(state') = Knobs(state) \/ results'.rollbacks_executed # <<>>

WriteFails(action) ==
    \/ /\ action.action_type = "circuit_breaker"
       /\ "issuer" \notin DOMAIN action.parameters
    \/ /\ action.action_type = "method_suppress"
       /\ "payment_method" \notin DOMAIN action.parameters

\* An execute that passed the pre-execution checks and whose write failed.
FailedWriteLeavesNoTrace ==
    \A id \in DOMAIN actions :
        /\ ret'.op = "execute" /\ ret'.id = id
        /\ _pre_execution_checks(executor, actions, state, id)[1]
        /\ WriteFails(actions[id])
        => /\ ~ret'.ok
           /\ ret'.message \in {"No issuer specified", "No payment method specified"}
           /\ actions' = [actions EXCEPT ![id].status = "failed"]
           /\ id \notin Range(executor'.active_interventions)
           /\ executor' = executor
           /\ state' = state

\* C22: when the type-specific write of execute fails (a circuit_breaker
\* without an issuer, a method_suppress without a payment method), execute
\* returns (False, message), the status of the action becomes failed, it is
\* not inserted into active_interventions, no entry is added to the execution
\* log, and the knobs, actions_executed and actions_taken_last_hour are
\* unchanged.
C22_FailedWriteLeavesNoTrace == [][FailedWriteLeavesNoTrace]_vars

\* With the HDFC breaker open, the breaker without an issuer and then the
\* suppression without a payment method were executed and failed.
C22_Witness ==
    /\ ret.op = "execute" /\ ret.id = 3 /\ ~ret.ok
    /\ ret.message = "No payment method specified"
    /\ actions[2].status = "failed" /\ actions[3].status = "failed"
    /\ executor.active_interventions = <<1>>
    /\ Len(executor.execution_log) = 1
    /\ state.active_circuit_breakers = {"HDFC"}
    /\ state.actions_executed = 1 /\ state.actions_taken_last_hour = 1

TerminalStatuses == {"completed", "rolled_back", "failed"}

StatusMoves ==
    \A id \in DOMAIN actions :
        actions'[id].status # actions[id].status =>
            <<actions[id].status, actions'[id].status>> \in
                { <<"pending", "executed">>, <<"pending", "failed">>,
                  <<"executed", "completed">>, <<"executed", "rolled_back">>,
                  <<"executed", "failed">> }

TerminalFrozen ==
    \A id \in DOMAIN actions :
        actions[id].status \in TerminalStatuses => actions'[id] = actions[id]

ActiveIffExecuted ==
    \A id \in DOMAIN actions :
        id \in Range(executor.active_interventions) <=> actions[id].status = "executed"

\* C23: the status of an Action only moves pending -> executed ->
\* (completed | rolled_back | failed) or pending -> failed; once the status is
\* completed, rolled_back or failed no later operation changes any field of
\* the action; and an action is in active_interventions exactly while its
\* status is executed.
C23_StatusLifecycle ==
    /\ [][StatusMoves /\ TerminalFrozen]_vars
    /\ []ActiveIffExecuted

\* The rolled-back breaker was executed again: it is active, its status is
\* executed, and its completed_at still tells of the rollback.
C23_ReexecutedWitness ==
    /\ ret.op = "execute" /\ ret.id = 1 /\ ret.ok
    /\ actions[1].status = "executed"
    /\ actions[1].completed_at # NoTime
    /\ actions[1].executed_at >= actions[1].completed_at
    /\ executor.active_interventions = <<1>>

\* The reasons _should_rollback gives.
RollbackReasons ==
    {"Success rate dropped", "Latency increased", "Action duration expired"}

\* The actions the monitor phase of the running cycle rolls back.
RolledBackInCycle ==
    {id \in DOMAIN actions :
        /\ pc = "acted" /\ pc' = "idle"
        /\ actions[id].status = "executed"
        /\ actions'[id].status = "rolled_back"}

\* Every rollback of the monitor phase has its id in the report of the cycle.
RollbackIdsReported ==
    \A id \in RolledBackInCycle :
        \E i \in DOMAIN results'.rollbacks_executed :
            results'.rollbacks_executed[i].action_id = id

\* ... in an entry that carries the reason of the rollback as well.
RollbackReasonsReported ==
    \A id \in RolledBackInCycle :
        \E i \in DOMAIN results'.rollbacks_executed :
            /\ results'.rollbacks_executed[i].action_id = id
            /\ "reason" \in DOMAIN results'.rollbacks_executed[i]
            /\ results'.rollbacks_executed[i].reason \in RollbackReasons

\* C24: every rollback performed during a cycle appears in the report of that
\* cycle under rollbacks_executed as an entry carrying both the action id and
\* the reason that triggered it.
C24_RollbackReportedWithReason ==
    [][RollbackIdsReported /\ RollbackReasonsReported]_vars

\* The part of C24 that holds: the id of every rollback is in the report.
C24_RollbackIdsReported == [][RollbackIdsReported]_vars

\* A cycle rolled back the HDFC breaker and reported its id.
C24_IdsWitness ==
    /\ pc = "idle" /\ cycle_count >= 1
    /\ results.rollbacks_executed = <<[action_id |-> 1]>>
    /\ actions[1].status = "rolled_back"
    /\ state.rollbacks_last_hour = 1

\* The patterns of the report on which _decide_and_act_phase called decide.
DecidedPatterns ==
    SelectSeq(results.patterns_detected, LAMBDA p : p.severity >= SeverityFloor)

\* The decisions of the running cycle that ended without an executed action:
\* decide returned None, the action waited for an approval, or execute
\* returned False.
BlockedInCycle == Len(DecidedPatterns) - Len(results.actions_taken)

\* C25: every action that was blocked (decide returned None for a safety
\* gate, or the pre-execution checks of execute rejected it) or that failed
\* during execution in a cycle surfaces with a one-sentence reason in the
\* report of that cycle; error is the one key of the report that holds a
\* sentence.
C25_BlockedActionSurfaces ==
    pc = "acted" /\ BlockedInCycle > 0 => results.error # ""

\* A cycle decided on three patterns, executed the action of the first and
\* had the other two blocked by the pre-execution checks.
C25_BlockedWitness ==
    /\ pc = "acted"
    /\ Len(DecidedPatterns) = 3 /\ Len(results.actions_taken) = 1
    /\ Len(executor.active_interventions) = 1
    /\ Len(actions) = 3
    /\ \A id \in {2, 3} : actions[id].status = "pending"

(***************************************************************************)
(* The authorization level of the actions.                                 *)
(***************************************************************************)
\* SafetyLimits.auto_approve_impact_threshold and
\* manual_approve_impact_threshold, 5% and 20% of the traffic, in units of
\* 1/10000
AutoApproveImpactThreshold == 500
ManualApproveImpactThreshold == 2000

MappedTypes ==
    {"adjust_retry", "alert_ops", "circuit_breaker", "route_change", "method_suppress"}

BaseAuthorization(type) ==
    CASE type \in {"adjust_retry", "alert_ops"} -> "automatic"
      [] type \in {"circuit_breaker", "route_change"} -> "semi_automatic"
      [] type = "method_suppress" -> "manual"

RequiredAuthorization(action) ==
    LET affected == action.estimated_impact.affected_traffic_pct
        base == BaseAuthorization(action.action_type)
    IN  IF affected > ManualApproveImpactThreshold THEN "manual"
        ELSE IF affected > AutoApproveImpactThreshold /\ base = "automatic"
        THEN "semi_automatic"
        ELSE base

FollowsMapping(action) ==
    action.action_type \in MappedTypes
        => action.authorization_level = RequiredAuthorization(action)

C26_AutomaticBreakerWitness ==
    /\ ret.op = "decide"
    /\ decision.pattern.pattern_type = "issuer_degradation"
    /\ \E candidate \in Range(_generate_actions(decision.pattern, state)) :
           /\ candidate.action_type = "circuit_breaker"
           /\ candidate.authorization_level = "automatic"
           /\ candidate.estimated_impact.affected_traffic_pct > ManualApproveImpactThreshold

\* The candidates that are specific to the type of the pattern.
SpecificTypes == {"circuit_breaker", "route_change", "adjust_retry", "method_suppress"}

\* The pairs <<pattern, candidate>> of the patterns of the report.
CandidatesOfReport ==
    UNION { {p} \X Range(_generate_actions(p, state)) :
            p \in Range(results.patterns_detected) }

\* C27: every candidate action the decision maker generates for a pattern
\* (the candidates specific to the pattern type, no_action and alert_ops
\* alike) has confidence <= the confidence of that pattern.
C27_CandidateConfidenceBounded ==
    pc = "acted" =>
        \A pc2 \in CandidatesOfReport : pc2[2].confidence <= pc2[1].confidence

\* The part of C27 that holds: the candidates specific to the pattern type.
C27_SpecificCandidatesBounded ==
    pc = "acted" =>
        \A pc2 \in CandidatesOfReport :
            pc2[2].action_type \in SpecificTypes
                => pc2[2].confidence <= pc2[1].confidence

\* A cycle decided on the degraded issuer, whose pattern has confidence 0.518:
\* the breaker carries that confidence, the route change nine tenths of it,
\* no_action and alert_ops carry 1.0.
C27_CandidatesWitness ==
    /\ pc = "acted"
    /\ \E pc2 \in CandidatesOfReport :
           /\ pc2[1].pattern_type = "issuer_degradation" /\ pc2[1].confidence = 518
           /\ pc2[2].action_type = "circuit_breaker" /\ pc2[2].confidence = 518
    /\ \E pc2 \in CandidatesOfReport :
           pc2[2].action_type = "route_change" /\ pc2[2].confidence = 466
    /\ \E pc2 \in CandidatesOfReport :
           /\ pc2[1].confidence = 518
           /\ pc2[2].action_type = "no_action" /\ pc2[2].confidence = 1000

(***************************************************************************)
(* The baselines of the reasoner.                                          *)
(***************************************************************************)
\* 0.9 * old + 0.1 * obs for obs = success / total, in millionths
MovedToward(old, success, total) == (9 * old + (1000000 * success) \div total) \div 10

IssuerBaseline(rs, issuer) ==
    Get(rs.baselines.issuer_success_rates, issuer, DefaultRateBaseline)

\* The overall baseline moves only on a healthy rate, by the moving average.
OverallMovesWhenHealthy ==
    LET rate == get_success_rate(observer, "overall", "current")
    IN  reasoner'.baselines.overall_success_rate # reasoner.baselines.overall_success_rate
            => /\ rate[1] * 10 >= 9 * rate[2]
               /\ reasoner'.baselines.overall_success_rate =
                      MovedToward(reasoner.baselines.overall_success_rate, rate[1], rate[2])

\* ... and only on a window that holds transactions.
OverallMovesOnVolume ==
    reasoner'.baselines.overall_success_rate # reasoner.baselines.overall_success_rate
        => observer.stats["overall"]["current"].total > 0

\* The baseline of an issuer moves only on a healthy rate of at least 20
\* transactions, by the moving average.
IssuerMovesWhenHealthy ==
    \A issuer \in Issuers :
        LET c == observer.stats["by_issuer"][issuer]
        IN  IssuerBaseline(reasoner', issuer) # IssuerBaseline(reasoner, issuer)
                => /\ c.total >= 20
                   /\ c.success * 10 >= 9 * c.total
                   /\ IssuerBaseline(reasoner', issuer) =
                          MovedToward(IssuerBaseline(reasoner, issuer), c.success, c.total)

\* C28: update_baselines moves the overall success-rate baseline only when
\* the overall success rate is >= 0.90 on a window with volume, and the
\* baseline of an issuer only when the success rate of that issuer is >= 0.90
\* and its in-window volume is >= 20; in every other case the baseline is
\* left unchanged; each change is new = 0.9 * old + 0.1 * obs.
C28_BaselinesMoveWhenHealthy ==
    [][OverallMovesWhenHealthy /\ OverallMovesOnVolume /\ IssuerMovesWhenHealthy]_vars

\* The part of C28 that holds: all but the volume of the overall rate.
C28_HealthyRatePart == [][OverallMovesWhenHealthy /\ IssuerMovesWhenHealthy]_vars

\* A cycle over twenty healthy ICICI payments moved the overall baseline and
\* the baseline of ICICI from 0.95 to 0.955.
C28_HealthyRateWitness ==
    /\ pc = "idle" /\ cycle_count = 1
    /\ observer.stats["by_issuer"]["ICICI"].total = 20
    /\ reasoner.baselines.overall_success_rate = 955000
    /\ IssuerBaseline(reasoner, "ICICI") = 955000
    /\ IssuerBaseline(reasoner, "HDFC") = DefaultRateBaseline


(***************************************************************************)
(* Ranges of the severity and the confidence of a pattern.                 *)
(***************************************************************************)
\* Batches that bring out each of the six detectors: the three of the agent
\* and ten payments of one region at 40% success.
PatternBatches ==
    AgentBatches
        \cup { [i \in 1..10 |-> IF i <= 4 THEN KD("success", "")
                                          ELSE KD("failed", "ISSUER_DOWN")] }

NextPatterns ==
    \/ \E d \in TickSteps : Tick(d)
    \/ \E b \in PatternBatches : IngestBatch(b)
    \/ CycleObserve
    \/ CycleDecideAct
    \/ CycleMonitor

SpecPatterns == InitFresh /\ [][NextPatterns]_vars

InUnitRange(x) == 0 <= x /\ x <= 1000

\* C29: every pattern analyze emits, in any reachable state of the observer,
\* has 0 <= severity <= 1 and 0 <= confidence <= 1.
C29_PatternsInUnitRange ==
    \A p \in Range(analyze(reasoner, observer)) :
        InUnitRange(p.severity) /\ InUnitRange(p.confidence)

\* analyze has emitted, in the reason phase of a cycle, a pattern at the
\* severity where min(., 1.0) cuts and a pattern below it.
C29_Witness ==
    LET patterns == results.patterns_detected
    IN  /\ pc = "acted"
        /\ patterns = analyze(reasoner, observer)
        /\ \E p \in Range(patterns) :
               p.pattern_type = "issuer_degradation" /\ p.severity = 1000
        /\ \E p \in Range(patterns) :
               p.pattern_type = "geographic_issue" /\ p.severity < 1000


(***************************************************************************)
(* Repeated calls of decide.                                               *)
(***************************************************************************)
\* Calls of decide on the patterns of a seeded window, executions of the
\* first two actions of the pool (the retry adjustment and the circuit
\* breaker on HDFC), and the passing of time.
NextRepeated ==
    \/ \E d \in TickSteps : Tick(d)
    \/ \E pattern \in Range(analyze(reasoner, observer)) : Decide(pattern)
    \/ \E id \in {1, 2} : Execute(id)

SpecRepeated == InitSeeded /\ [][NextRepeated]_vars

\* The two decisions agree: both none with the same reason, or both the same
\* action by type, target, parameters, risk, authorization and confidence.
SameDecision(a, b) ==
    /\ a.selected = b.selected
    /\ a.reason = b.reason
    /\ a.selected =>
           /\ a.best_action.action_type = b.best_action.action_type
           /\ a.best_action.target = b.best_action.target
           /\ a.best_action.parameters = b.best_action.parameters
           /\ a.best_action.risk_level = b.best_action.risk_level
           /\ a.best_action.authorization_level = b.best_action.authorization_level
           /\ a.best_action.confidence = b.best_action.confidence

MaxUpdates == 3

Objectives == {"success_rate", "latency", "cost", "risk"}

RECURSIVE GCD(_, _)
GCD(a, b) == IF b = 0 THEN a ELSE GCD(b, a % b)

\* sum(decision_maker.weights.values()), as a numerator
TotalWeight(num) == num["success_rate"] + num["latency"] + num["cost"] + num["risk"]

\* PaymentDecisionMaker.__init__: the weights 0.40, 0.25, 0.20, 0.15
InitialWeights ==
    [num |-> [success_rate |-> 8, latency |-> 5, cost |-> 4, risk |-> 3], den |-> 20]

\* PaymentLearner.update_decision_weights with learning_rate = 0.1, on the
\* outcomes recorded on the actions.  Every score appended is 1.0, so that an
\* objective with scores moves by 0.1 * (1.0 - 0.5) = 1/20 and is cut to
\* 0.05..0.60; over the denominator 20 * den these are num * 20 + den, den
\* and 12 * den.  Then each weight is divided by the total of the four.
update_decision_weights(acts, w) ==
    LET successful == {i \in DOMAIN acts :
                          /\ acts[i].actual_impact # NoImpact
                          /\ acts[i].actual_impact.success_rate_delta[1] > 0}
        Scored(objective) ==
            CASE objective = "success_rate" ->
                     \E i \in successful : acts[i].estimated_impact.success_rate_delta > 0
              [] objective = "latency" ->
                     \E i \in successful : acts[i].estimated_impact.latency_delta_ms < 0
              [] objective = "cost" ->
                     \E i \in successful : acts[i].estimated_impact.cost_delta_per_txn <= 20
              [] OTHER -> FALSE
        adjusted == [o \in Objectives |->
                        IF Scored(o)
                        THEN Max(w.den, Min(12 * w.den, 20 * w.num[o] + w.den))
                        ELSE 20 * w.num[o]]
        total_weight == TotalWeight(adjusted)
        g == GCD(GCD(GCD(GCD(adjusted["success_rate"], adjusted["latency"]),
                         adjusted["cost"]), adjusted["risk"]), total_weight)
    IN  [num |-> [o \in Objectives |-> adjusted[o] \div g], den |-> total_weight \div g]

\* The circuit breaker and the routing of an issuer, the routing of a region
\* and the retry adjustment as the decision maker estimates them, executed.
LearnerPool ==
    LET Executed(a) == [a EXCEPT !.status = "executed", !.executed_at = 0]
    IN  << Executed(Action("circuit_breaker", "HDFC", ("issuer" :> "HDFC"),
                           "medium", "automatic", "", 900, Impact(150, -200, 20, 1000))),
           Executed(Action("route_change", "region_IN", ("region" :> "IN"),
                           "high", "semi_automatic", "ops", 900, Impact(200, 100, 30, 1000))),
           Executed(Action("adjust_retry", "global_retry_strategy", ("max_retries" :> 2),
                           "low", "automatic", "", 900, Impact(-20, -100, -5, 1000))) >>

\* The metrics before an action and the two metrics after it
LearnerBaseline == [success_rate |-> <<1, 2>>, avg_latency |-> <<200, 1>>]
LearnerActuals ==
    { [success_rate |-> <<7, 10>>, avg_latency |-> <<200, 1>>],
      [success_rate |-> <<3, 10>>, avg_latency |-> <<200, 1>>] }

InitLearner ==
    /\ now = 0
    /\ observer = ObserverInit
    /\ reasoner = ReasonerInit
    /\ state = AgentStateInit(0, 0)
    /\ executor = ExecutorInit
    /\ actions = LearnerPool
    /\ pc = "idle"
    /\ cycle_count = 0
    /\ results = EmptyResults
    /\ decision = NoDecision @@ [weights |-> InitialWeights, updates |-> 0]
    /\ ret = NoRet

\* A call of PaymentLearner.record_outcome
RecordOutcome(id, actual_metrics) ==
    /\ actions[id].actual_impact = NoImpact
    /\ actions' = record_outcome(actions, id, LearnerBaseline, actual_metrics, now)
    /\ ret' = [op |-> "record_outcome"]
    /\ UNCHANGED <<now, observer, reasoner, state, executor, pc, cycle_count, results,
                   decision>>

\* A call of PaymentLearner.update_decision_weights on the decision maker
UpdateDecisionWeights ==
    /\ decision.updates < MaxUpdates
    /\ decision' = [decision EXCEPT !.weights = update_decision_weights(actions, @),
                                    !.updates = @ + 1]
    /\ ret' = [op |-> "update_decision_weights"]
    /\ UNCHANGED <<now, observer, reasoner, state, executor, actions, pc, cycle_count,
                   results>>

NextLearner ==
    \/ \E id \in DOMAIN actions, actual_metrics \in LearnerActuals :
           RecordOutcome(id, actual_metrics)
    \/ UpdateDecisionWeights

SpecLearner == InitLearner /\ [][NextLearner]_vars

\* An outcome is recorded in which an action of positive estimated
\* success_rate_delta showed an actual improvement of the success rate.
PositiveEstimateImproved(acts) ==
    \E i \in DOMAIN acts :
        /\ acts[i].actual_impact # NoImpact
        /\ acts[i].actual_impact.success_rate_delta[1] > 0
        /\ acts[i].estimated_impact.success_rate_delta > 0

\* An outcome with an improvement is recorded for an action whose estimate
\* also lowers the latency or keeps the cost per transaction within 0.02.
OtherObjectiveScored(acts) ==
    \E i \in DOMAIN acts :
        /\ acts[i].actual_impact # NoImpact
        /\ acts[i].actual_impact.success_rate_delta[1] > 0
        /\ \/ acts[i].estimated_impact.latency_delta_ms < 0
           \/ acts[i].estimated_impact.cost_delta_per_txn <= 20

\* 0.05 <= w_success_rate <= 0.60 and the four weights sum to 1
WeightsWellFormed(w) ==
    /\ w.den <= 20 * w.num["success_rate"]
    /\ 5 * w.num["success_rate"] <= 3 * w.den
    /\ TotalWeight(w.num) = w.den

SuccessWeightGrew(w, v) ==
    v.num["success_rate"] * w.den > w.num["success_rate"] * v.den

\* C31: after update_decision_weights is called with recorded outcomes in
\* which actions of positive estimated success_rate_delta showed an actual
\* improvement, 0.05 <= w_success_rate <= 0.60, the four weights sum to 1, and
\* w_success_rate is strictly greater than before the call.
C31_SuccessWeightGrows ==
    [][ (ret'.op = "update_decision_weights" /\ PositiveEstimateImproved(actions))
        => /\ WeightsWellFormed(decision'.weights)
           /\ SuccessWeightGrew(decision.weights, decision'.weights) ]_vars

\* The part of C31 that holds: after such a call the weight is within
\* 0.05..0.60 and the weights sum to 1, and the weight of the success rate has
\* grown when no outcome scored the latency or the cost as well.
C31_WeightsPart ==
    [][ (ret'.op = "update_decision_weights" /\ PositiveEstimateImproved(actions))
        => /\ WeightsWellFormed(decision'.weights)
           /\ ~OtherObjectiveScored(actions)
                  => SuccessWeightGrew(decision.weights, decision'.weights) ]_vars

\* Three calls on the improvement recorded for the routing of the region have
\* raised the weight of the success rate from 0.40 to above 0.48.
C31_WeightsPartWitness ==
    /\ ret.op = "update_decision_weights"
    /\ decision.updates = 3
    /\ PositiveEstimateImproved(actions)
    /\ ~OtherObjectiveScored(actions)
    /\ 25 * decision.weights.num["success_rate"] > 12 * decision.weights.den

(***************************************************************************)
(* The boundary of the latency detector.                                   *)
(***************************************************************************)
LatencySpikeEmitted ==
    \E p \in Range(analyze(reasoner, observer)) : p.pattern_type = "latency_spike"

\* The overall p95 and the latency baseline, in thousandths of a millisecond
CurrentP95 == get_latency_stats(observer).p95

LatencyBaseline == reasoner.baselines.avg_latency

\* C32: the latency_spike detector emits a pattern whenever the overall p95
\* latency is >= 1.5 times the latency baseline, the p95 of exactly 1.5 times
\* the baseline included, and none when the p95 is below that.
C32_SpikeAtOneAndAHalf ==
    LatencySpikeEmitted <=> 2 * CurrentP95 >= 3 * LatencyBaseline

\* The part of C32 that holds: a pattern is emitted when the p95 is above 1.5
\* times the baseline and none when it is below.
C32_SpikeAboveOneAndAHalf ==
    /\ 2 * CurrentP95 > 3 * LatencyBaseline => LatencySpikeEmitted
    /\ 2 * CurrentP95 < 3 * LatencyBaseline => ~LatencySpikeEmitted

\* A p95 above 1.5 times the baseline with the pattern emitted.
C32_AboveWitness ==
    /\ 2 * CurrentP95 > 3 * LatencyBaseline
    /\ LatencySpikeEmitted

(***************************************************************************)
(* Error clusters and the window.                                          *)
(***************************************************************************)
\* The failed transactions of the window that carry the error code
FailedInWindow(code) ==
    CountIf(observer.transactions_window,
            LAMBDA t : t.status = "failed" /\ t.error_code = code)

\* C33: an error_cluster pattern is emitted for an error code only if the
\* code occurs at least 10 times among the failed transactions now in the
\* sliding window; occurrences on evicted transactions do not count.
C33_ClusterCountsWindowOnly ==
    \A p \in Range(analyze(reasoner, observer)) :
        p.pattern_type = "error_cluster"
            => FailedInWindow(p.affected_value) >= Thresholds.error_cluster

\* The part of C33 that holds: an error_cluster pattern is emitted only for a
\* code that failed transactions have carried at least 10 times since the
\* start, and for each such code among the five most frequent.
C33_ClusterCountsAllIngested ==
    \A e \in Range(get_top_errors(observer, 5)) :
        (e.count >= Thresholds.error_cluster)
            <=> \E p \in Range(analyze(reasoner, observer)) :
                    p.pattern_type = "error_cluster" /\ p.affected_value = e.code

\* An error_cluster pattern is emitted while the window holds transactions.
C33_ClusterWitness ==
    /\ observer.transactions_window # <<>>
    /\ \E p \in Range(analyze(reasoner, observer)) : p.pattern_type = "error_cluster"

(***************************************************************************)
(* The hourly counters over a long run.  The agent starts with its         *)
(* counters at <<actions taken, rollbacks>> of LimitSeeds: fresh, after    *)
(* nine executions that were all rolled back, and one short of the hourly  *)
(* limit of actions (the counters are plain fields, set from outside as    *)
(* the scenarios of the safety limits do).  The degraded batch is in the   *)
(* window, so that the cycles decide on actions of their own.              *)
(***************************************************************************)
LimitSeeds == { <<0, 0>>, <<9, 9>>, <<49, 0>> }

InitLimits ==
    /\ now = 0
    /\ observer = ingest_batch(ObserverInit, DegradedBatch, 0)
    /\ reasoner = ReasonerInit
    /\ \E seed \in LimitSeeds :
           state = update_metrics(AgentStateInit(seed[1], seed[2]),
                                  observer.transactions_window)
    /\ executor = ExecutorInit
    /\ actions = InterventionPool
    /\ pc = "idle"
    /\ cycle_count = 0
    /\ results = EmptyResults
    /\ decision = NoDecision
    /\ ret = NoRet

NextLimits ==
    \/ \E d \in TickSteps : Tick(d)
    \/ \E id \in 1..3 : Execute(id)
    \/ MonitorAndRollback
    \/ CycleObserve
    \/ CycleDecideAct
    \/ CycleMonitor

SpecLimits == InitLimits /\ [][NextLimits]_vars

CountersNeverDecrease ==
    /\ state'.actions_taken_last_hour >= state.actions_taken_last_hour
    /\ state'.rollbacks_last_hour >= state.rollbacks_last_hour

LimitReached ==
    \/ state.rollbacks_last_hour >= RollbackLimit
    \/ state.actions_taken_last_hour >= HourlyActionLimit

\* The step executes no action: no execution is counted or logged and no
\* action takes the status executed.
NothingExecuted ==
    /\ state'.actions_taken_last_hour = state.actions_taken_last_hour
    /\ state'.actions_executed = state.actions_executed
    /\ executor'.execution_log = executor.execution_log
    /\ \A i \in DOMAIN actions' :
           actions'[i].status = "executed"
               => i \in DOMAIN actions /\ actions[i].status = "executed"

WeightVectors ==
    { DefaultWeights }
        \cup { update_decision_weights(
                   record_outcome(LearnerPool, id, LearnerBaseline,
                                  [success_rate |-> <<7, 10>>, avg_latency |-> <<200, 1>>],
                                  0),
                   InitialWeights).num : id \in {1, 2} }

\* no_action is among the candidates, scores at least as high as each of
\* them, and is the first of the sorted list.
NoActionOnTop(pattern, st, w) ==
    LET candidates == _generate_actions(pattern, st)
        Score(a) == _evaluate_action(a, pattern, st, w)
        d == decide(pattern, st, w)
    IN  /\ \E a \in Range(candidates) :
               /\ a.action_type = "no_action"
               /\ \A b \in Range(candidates) : Score(a) >= Score(b)
        /\ d.evaluated[1].action.action_type = "no_action"
        /\ d.selected => /\ d.best_action.action_type = "no_action"
                         /\ d.best_action.target = "none"

KnobsEmpty ==
    Knobs(state) = Knobs(AgentStateInit(0, 0))

\* C35: for every pattern, reachable AgentState and weight vector the
\* no_action candidate scores at least as high as every other candidate and
\* precedes alert_ops on ties, so that decide returns a no_action action with
\* target 'none' or none; across any sequence of ingest and run_cycle calls
\* the four control knobs stay empty.  The decide part is stated where the
\* cycle calls decide, on the AgentState the observe phase has filled.
C35_NoActionAlwaysWins ==
    /\ pc = "observed" =>
           \A pattern \in Range(analyze(reasoner, observer)), w \in WeightVectors :
               NoActionOnTop(pattern, state, w)
    /\ KnobsEmpty

\* The decide part of C35 alone, for the seeded counters and windows.
C35_NoActionOnTop ==
    \A pattern \in Range(analyze(reasoner, observer)), w \in WeightVectors :
        NoActionOnTop(pattern, state, w)

\* A cycle has seen the degradation of HDFC, for which a circuit breaker is
\* among the candidates, and has executed a no_action.
C35_Witness ==
    /\ pc = "acted"
    /\ \E p \in Range(results.patterns_detected) :
           /\ p.pattern_type = "issuer_degradation"
           /\ \E a \in Range(_generate_actions(p, state)) :
                  a.action_type = "route_change"
    /\ results.actions_taken # <<>>
    /\ \A i \in DOMAIN actions : actions[i].action_type = "no_action"
    /\ \E i \in DOMAIN actions : actions[i].status = "executed"
    /\ KnobsEmpty

(***************************************************************************)
(* The counters of the executor against the active set.                    *)
(***************************************************************************)
\* C36: over any sequence of execute and monitor_and_rollback calls on
\* actions of distinct ids, from a fresh executor and AgentState,
\* actions_executed = actions_taken_last_hour = the number of active
\* interventions + rollbacks_last_hour: every intervention that leaves the
\* active set is counted as a rollback, one that merely expired included, and
\* no action ever has the status completed.
C36_ExecutedIsActivePlusRolledBack ==
    /\ state.actions_executed = state.actions_taken_last_hour
    /\ state.actions_taken_last_hour
           = Len(executor.active_interventions) + state.rollbacks_last_hour
    /\ \A i \in DOMAIN actions : actions[i].status # "completed"

\* monitor_and_rollback has just taken an expired intervention out of the
\* active set, counting a rollback, while another intervention stays active.
C36_Witness ==
    /\ ret.op = "monitor"
    /\ \E k \in DOMAIN ret.reasons : ret.reasons[k] = "Action duration expired"
    /\ state.rollbacks_last_hour >= 1
    /\ Len(executor.active_interventions) >= 1
    /\ state.actions_executed >= 2

(***************************************************************************)
(* The control knobs against the active interventions: a caller holds six  *)
(* Action objects, one of each type that writes a knob, a second circuit   *)
(* breaker on the same issuer under another target and a suppression       *)
(* without a payment method, executes each once and calls                  *)
(* monitor_and_rollback while time passes.                                 *)
(***************************************************************************)
KnobPool ==
    << Action("circuit_breaker", "HDFC",
              ("issuer" :> "HDFC") @@ ("duration_minutes" :> 10),
              "low", "automatic", "", 900, Impact(150, -200, 20, 1000)),
       Action("circuit_breaker", "hdfc_gateway", ("issuer" :> "HDFC"),
              "low", "automatic", "", 900, Impact(150, -200, 20, 1000)),
       Action("adjust_retry", "global_retry_strategy",
              ("max_retries" :> 2) @@ ("duration_minutes" :> 0),
              "low", "automatic", "", 900, Impact(-20, -100, -5, 1000)),
       Action("route_change", "region_IN",
              ("alternative_routing" :> TRUE) @@ ("duration_minutes" :> 0),
              "low", "automatic", "", 900, Impact(200, 100, 30, 1000)),
       Action("method_suppress", "upi",
              ("payment_method" :> "upi") @@ ("duration_minutes" :> 10),
              "low", "automatic", "", 900, Impact(150, -200, 20, 1000)),
       Action("method_suppress", "card", ("duration_minutes" :> 10),
              "low", "automatic", "", 900, Impact(150, -200, 20, 1000)) >>

InitKnobs ==
    /\ now = 0
    /\ observer = ObserverInit
    /\ reasoner = ReasonerInit
    /\ state = AgentStateInit(0, 0)
    /\ executor = ExecutorInit
    /\ actions = KnobPool
    /\ pc = "idle"
    /\ cycle_count = 0
    /\ results = EmptyResults
    /\ decision = NoDecision
    /\ ret = NoRet

NextKnobs ==
    \/ \E d \in TickSteps : Tick(d)
    \/ \E id \in DOMAIN actions : ExecutePending(id)
    \/ MonitorAndRollback

SpecKnobs == InitKnobs /\ [][NextKnobs]_vars

ActiveOfType(type) == { i \in ActiveIds : actions[i].action_type = type }

ActiveParameter(type, key) ==
    { Get(actions[i].parameters, key, "") : i \in ActiveOfType(type) }

ActiveTargets(type) == { actions[i].target : i \in ActiveOfType(type) }

\* C37: no control-knob entry outlives its intervention.  From empty knobs,
\* in every state reached through execute and monitor_and_rollback, each
\* issuer in active_circuit_breakers is parameters['issuer'] of an active
\* circuit_breaker intervention, each method in suppressed_methods is
\* parameters['payment_method'] of an active method_suppress intervention,
\* and the keys of retry_strategies and of routing_overrides are exactly the
\* targets of the active adjust_retry and route_change interventions.
C37_KnobsBelongToActive ==
    /\ state.active_circuit_breakers \subseteq ActiveParameter("circuit_breaker", "issuer")
    /\ state.suppressed_methods \subseteq ActiveParameter("method_suppress", "payment_method")
    /\ DOMAIN state.retry_strategies = ActiveTargets("adjust_retry")
    /\ DOMAIN state.routing_overrides = ActiveTargets("route_change")

\* monitor_and_rollback has just rolled back an adjust_retry and a
\* route_change intervention, whose entries are gone, while a circuit breaker
\* and a method suppression executed later are still active with their knobs.
C37_Witness ==
    /\ ret.op = "monitor"
    /\ \E i, j \in DOMAIN actions :
           /\ actions[i].action_type = "adjust_retry"
           /\ actions[j].action_type = "route_change"
           /\ actions[i].status = "rolled_back"
           /\ actions[j].status = "rolled_back"
    /\ state.retry_strategies = EmptyDict
    /\ state.routing_overrides = EmptyDict
    /\ state.active_circuit_breakers # {}
    /\ state.suppressed_methods # {}

(***************************************************************************)
(* The Act and Monitor phases of one cycle.                                *)
(***************************************************************************)
\* The step is the monitor phase that ends a cycle.
MonitorPhaseStep == pc = "acted" /\ pc' = "idle"

\* C38: an action executed in the Act phase of a cycle is not rolled back by
\* the Monitor phase of the same cycle when no payment is ingested in
\* between: every action in the report's actions_taken is an active
\* intervention, and not in rollbacks_executed, when run_cycle returns.
C38_ActedSurvivesMonitor ==
    [][ MonitorPhaseStep =>
          \A id \in Range(results'.actions_taken) :
              /\ id \in Range(executor'.active_interventions)
              /\ actions'[id].status = "executed"
              /\ \A k \in DOMAIN results'.rollbacks_executed :
                     results'.rollbacks_executed[k].action_id # id ]_vars

\* A cycle has returned with an action in actions_taken, which is active.
C38_Witness ==
    /\ pc = "idle"
    /\ cycle_count >= 1
    /\ results.actions_taken # <<>>
    /\ \A id \in Range(results.actions_taken) : id \in ActiveIds

(***************************************************************************)
(* The counters against the size of the window.                            *)
(***************************************************************************)
RECURSIVE TotalOver(_, _)
TotalOver(d, keys) ==
    IF keys = {} THEN 0
    ELSE LET k == CHOOSE x \in keys : TRUE
         IN  observer.stats[d][k].total + TotalOver(d, keys \ {k})

\* The totals of dimension d summed over all its keys.
DimensionTotal(d) == TotalOver(d, KeysOf(d))

\* C39: after every completed ingest the overall counter equals the size of
\* the window, and for each of by_issuer, by_method, by_region and
\* by_merchant the totals summed over all keys equal it as well, also when
\* the ingested record is itself older than the window and is evicted by the
\* ingest that brought it.
C39_TotalsEqualWindow ==
    \A d \in Dims : DimensionTotal(d) = Len(observer.transactions_window)

\* The last ingest has evicted the whole window and the record it brought:
\* records were ingested, the window is empty and every total is zero.
C39_Witness ==
    /\ observer.ingested >= 2
    /\ observer.transactions_window = <<>>
    /\ \A d \in Dims : \A k \in KeysOf(d) : observer.stats[d][k].total = 0

(***************************************************************************)
(* The status of a record and the counter it is counted in.                *)
(***************************************************************************)
\* The records of the window counted under key k of dimension d.
CountedUnder(d, k) ==
    { i \in DOMAIN observer.transactions_window :
          KeyIn(d, observer.transactions_window[i]) = k }

SuccessfulUnder(d, k) ==
    { i \in CountedUnder(d, k) : observer.transactions_window[i].status = "success" }

\* C40: every ingested record whose status is not success (failed, pending
\* or retry) is counted in the 'failed' counter of every dimension, on
\* ingest and on eviction, so that the success rate of a dimension and key
\* is the number of counted records with status success over the number of
\* all counted records of any status.
C40_NonSuccessCountsAsFailed ==
    \A d \in Dims : \A k \in KeysOf(d) :
        /\ observer.stats[d][k].success = Cardinality(SuccessfulUnder(d, k))
        /\ observer.stats[d][k].failed
               = Cardinality(CountedUnder(d, k) \ SuccessfulUnder(d, k))
        /\ CountedUnder(d, k) # {}
               => get_success_rate(observer, d, k)
                      = <<Cardinality(SuccessfulUnder(d, k)),
                          Cardinality(CountedUnder(d, k))>>

\* Records have been evicted, and the window now holds a pending and a retry
\* record and no failed one, with two failures counted overall.
C40_Witness ==
    /\ observer.ingested > Len(observer.transactions_window)
    /\ \E i, j \in DOMAIN observer.transactions_window :
           /\ observer.transactions_window[i].status = "pending"
           /\ observer.transactions_window[j].status = "retry"
    /\ \A i \in DOMAIN observer.transactions_window :
           observer.transactions_window[i].status # "failed"
    /\ observer.stats["overall"]["current"].failed = 2

=============================================================================
